---- MODULE Spec2Model ----
(***************************************************************************)
(* DocuLens: the documentation ingestion pipeline                          *)
(* (ScraperService.scrape_and_store_language driven by the admin scrape    *)
(* endpoint over a get_db session), the summarizer adapter                 *)
(* (AIService.summarize_documentation) and the LeetCode problem matcher    *)
(* (LeetCodeScraper.search_problems_by_topic).                             *)
(***************************************************************************)
EXTENDS Integers, Sequences, FiniteSets, TLC

(***************************************************************************)
(* Bounds of the model                                                     *)
(***************************************************************************)
\* the largest number of stubs an index page yields in the model
MaxStubs == 2
\* the number of admin scrape requests served one after the other when
\* requests are repeated
MaxRuns == 2

(***************************************************************************)
(* Small helpers                                                           *)
(***************************************************************************)
Min(a, b) == IF a < b THEN a ELSE b

\* the value None of the source where a string is expected
None == "None"

\* the value None of the source where an object is expected
NoneObj == [is_none |-> TRUE]

(***************************************************************************)
(* Text.  A text is known by its paragraphs (joined by "\n\n"), its words  *)
(* (joined by one blank inside a paragraph) and the characters of its      *)
(* words.                                                                  *)
(***************************************************************************)
Text(paras, words, wordchars) == [paras |-> paras, words |-> words, wordchars |-> wordchars]

EmptyText == Text(0, 0, 0)

\* len(text)
TextLen(t) == IF t.words = 0 THEN 0 ELSE t.wordchars + (t.words - t.paras) + 2 * (t.paras - 1)

\* len(text.split())
WordCount(t) == t.words

\* len(" ".join(text.split()[:n])): all words when there are at most n,
\* else n words of the average word length
PreviewLen(t, n) == IF t.words = 0 THEN 0 ELSE IF t.words <= n THEN t.wordchars + (t.words - 1) ELSE ((t.wordchars * n) \div t.words) + (n - 1)

(***************************************************************************)
(* Exceptions (app/core/exceptions.py)                                     *)
(***************************************************************************)
\* the exception classes the module app.core.exceptions defines
ExceptionClasses == {"DocuLensException", "NotFoundException", "UnauthorizedException", "ForbiddenException", "BadRequestException", "ConflictException", "ValidationException", "RateLimitException", "ExternalServiceException", "DatabaseException"}

\* "from app.core.exceptions import <name>": the class when the module
\* defines it, ImportError when it does not
ImportFromExceptions(name) == IF name \in ExceptionClasses THEN name ELSE "ImportError"

\* the two error kinds the summarizer names
BadRequestException == ImportFromExceptions("BadRequestException")

ServiceUnavailableException == ImportFromExceptions("ServiceUnavailableException")

(***************************************************************************)
(* Summarizer adapter (app/services/ai_services.py)                        *)
(***************************************************************************)
\* minimum length of the stripped content
MinSummaryContent == 50

\* input cap of the summarizer
MaxInputChars == 50000

\* settings.GROQ_MAX_TOKENS
GROQ_MAX_TOKENS == 1000

\* settings.CLAUDE_MAX_TOKENS
CLAUDE_MAX_TOKENS == 1000

\* what a provider call does: raises, or returns a text ("" is an empty completion)
ProviderOutcomes == {"raise", "X", ""}

Styles == {"concise", "detailed", "bullet_points"}

\* a content is known by len(content) and len(content.strip())
Content(len, slen) == [len |-> len, slen |-> slen]

\* the system prompt: the base text, the language context when given, the
\* sentence of the style when the style is a known one
_build_summary_prompt(style, language_context) == [context |-> language_context, style |-> IF style \in Styles THEN style ELSE None]

\* the content as submitted: cut to the input cap, "..." appended
SubmittedLen(content) == IF content.len > MaxInputChars THEN MaxInputChars + 3 ELSE content.len

\* the user prompt: the word limit and the (cut) content
UserPrompt(content, max_length) == [max_length |-> max_length, content_len |-> SubmittedLen(content)]

\* one provider call as the provider sees it
ProviderCall(provider, system_prompt, user_prompt, max_tokens) == [provider |-> provider, system |-> system_prompt, user |-> user_prompt, max_tokens |-> max_tokens]

_summarize_with_groq(system_prompt, user_prompt, max_tokens) == ProviderCall("groq", system_prompt, user_prompt, Min(max_tokens, GROQ_MAX_TOKENS))

_summarize_with_claude(system_prompt, user_prompt, max_tokens) == ProviderCall("claude", system_prompt, user_prompt, Min(max_tokens, CLAUDE_MAX_TOKENS))

\* a chain that calls every configured provider
SummaryCallsAll(groq, claude, groqOut, sp, up, mt) == (IF groq THEN <<_summarize_with_groq(sp, up, mt)>> ELSE <<>>) \o (IF claude THEN <<_summarize_with_claude(sp, up, mt)>> ELSE <<>>)

\* the calls of the failover chain: groq when configured, claude when
\* configured and groq did not return
SummaryCalls(groq, claude, groqOut, sp, up, mt) == (IF groq THEN <<_summarize_with_groq(sp, up, mt)>> ELSE <<>>) \o (IF claude /\ ~(groq /\ groqOut # "raise") THEN <<_summarize_with_claude(sp, up, mt)>> ELSE <<>>)

\* an adapter that gives up when the primary provider raised
summarize_without_failover(content, max_length, style, language_context, groq, claude, groqOut, claudeOut) ==
  IF content.len = 0 \/ content.slen < MinSummaryContent
  THEN [kind |-> "raise", value |-> BadRequestException, calls |-> <<>>]
  ELSE LET sp == _build_summary_prompt(style, language_context)
           up == UserPrompt(content, max_length)
       IN IF groq
          THEN IF groqOut # "raise"
               THEN [kind |-> "return", value |-> groqOut, calls |-> <<_summarize_with_groq(sp, up, max_length * 2)>>]
               ELSE [kind |-> "raise", value |-> ServiceUnavailableException, calls |-> <<_summarize_with_groq(sp, up, max_length * 2)>>]
          ELSE IF claude /\ claudeOut # "raise"
               THEN [kind |-> "return", value |-> claudeOut, calls |-> <<_summarize_with_claude(sp, up, max_length * 2)>>]
               ELSE [kind |-> "raise", value |-> ServiceUnavailableException, calls |-> IF claude THEN <<_summarize_with_claude(sp, up, max_length * 2)>> ELSE <<>>]

\* AIService.summarize_documentation: [kind, value, calls]; kind is
\* "return" (value the summary) or "raise" (value the exception class)
summarize_documentation(content, max_length, style, language_context, groq, claude, groqOut, claudeOut) ==
  IF content.len = 0 \/ content.slen < MinSummaryContent
  THEN [kind |-> "raise", value |-> BadRequestException, calls |-> <<>>]
  ELSE LET sp == _build_summary_prompt(style, language_context)
           up == UserPrompt(content, max_length)
           calls == SummaryCalls(groq, claude, groqOut, sp, up, max_length * 2)
       IN IF groq /\ groqOut # "raise"
          THEN [kind |-> "return", value |-> groqOut, calls |-> calls]
          ELSE IF claude /\ claudeOut # "raise"
               THEN [kind |-> "return", value |-> claudeOut, calls |-> calls]
               ELSE [kind |-> "raise", value |-> ServiceUnavailableException, calls |-> calls]

(***************************************************************************)
(* Problem matcher (app/scrapers/leetcode.py)                              *)
(***************************************************************************)
\* the largest limit a search is called with in the model
MaxLimit == 4

\* the largest number of problems the upstream API answers with in the model
MaxApiProblems == 2

\* topics a search is called with in the model
SearchTopics == {"array", "Array", "string", "tree", "dynamic-programming", "dynamic programming", "hash-table"}

\* difficulties a search is called with in the model (None: no filter)
SearchDifficulties == {None, "easy", "Easy", "medium", "hard"}

\* str.lower() on the strings of the model
Lower(s) == CASE s = "Array" -> "array" [] s = "Easy" -> "easy" [] s = "Python" -> "python" [] s = "Java" -> "java" [] s = "Lists" -> "lists" [] OTHER -> s

\* str.replace(" ", "-") on the strings of the model
HyphenateBlanks(s) == CASE s = "dynamic programming" -> "dynamic-programming" [] OTHER -> s

\* the first n elements of a sequence: s[:n] for n >= 0
Take(s, n) == SubSeq(s, 1, Min(n, Len(s)))

\* [x for x in s if Test(x)]
RECURSIVE FilterByDifficulty(_, _)
FilterByDifficulty(s, d) == IF s = <<>> THEN <<>> ELSE (IF Head(s).difficulty = d THEN <<Head(s)>> ELSE <<>>) \o FilterByDifficulty(Tail(s), d)

\* the embedded curated table
curated_problems == [array |-> << [id |-> "1", title |-> "Two Sum", difficulty |-> "easy"], [id |-> "15", title |-> "3Sum", difficulty |-> "medium"], [id |-> "53", title |-> "Maximum Subarray", difficulty |-> "medium"], [id |-> "121", title |-> "Best Time to Buy and Sell Stock", difficulty |-> "easy"] >>, string |-> << [id |-> "3", title |-> "Longest Substring Without Repeating Characters", difficulty |-> "medium"], [id |-> "5", title |-> "Longest Palindromic Substring", difficulty |-> "medium"], [id |-> "20", title |-> "Valid Parentheses", difficulty |-> "easy"] >>, tree |-> << [id |-> "94", title |-> "Binary Tree Inorder Traversal", difficulty |-> "easy"], [id |-> "102", title |-> "Binary Tree Level Order Traversal", difficulty |-> "medium"], [id |-> "104", title |-> "Maximum Depth of Binary Tree", difficulty |-> "easy"] >>, dynamic_programming |-> << [id |-> "70", title |-> "Climbing Stairs", difficulty |-> "easy"], [id |-> "198", title |-> "House Robber", difficulty |-> "medium"], [id |-> "322", title |-> "Coin Change", difficulty |-> "medium"] >>]

\* the keys of the curated table
CuratedTags == {"array", "string", "tree", "dynamic-programming"}

\* curated_problems.get(topic_key, curated_problems["array"])
CuratedFor(topic_key) == CASE topic_key = "array" -> curated_problems.array [] topic_key = "string" -> curated_problems.string [] topic_key = "tree" -> curated_problems.tree [] topic_key = "dynamic-programming" -> curated_problems.dynamic_programming [] OTHER -> curated_problems.array

\* one formatted entry of the fallback; problem_url is kept as the title
\* its last path segment is made from
FallbackEntry(problem, topic, idx) == [title |-> problem.title, platform |-> "leetcode", difficulty |-> problem.difficulty, problem_url |-> [problems |-> problem.title], description |-> problem.id, tags |-> <<topic>>, order_index |-> idx, origin |-> "curated"]

\* LeetCodeScraper._get_fallback_problems
_get_fallback_problems(topic, difficulty, limit) ==
  LET topic_key == HyphenateBlanks(Lower(topic))
      problems == CuratedFor(topic_key)
      filtered == IF difficulty # None THEN FilterByDifficulty(problems, Lower(difficulty)) ELSE problems
      cut == Take(filtered, limit)
  IN [i \in 1..Len(cut) |-> FallbackEntry(cut[i], topic, i - 1)]

\* what the upstream API does with the one query: answers 200 with n
\* problems, answers with another status, or the call raises
ApiOutcomes == [kind : {"ok"}, n : 0..MaxApiProblems, status : {200}] \cup [kind : {"status"}, n : {0}, status : {429, 500}] \cup [kind : {"raise"}, n : {0}, status : {0}]

\* LeetCodeScraper._format_problems on the n problems of an answer
_format_problems(n) == [i \in 1..n |-> [title |-> "upstream", platform |-> "leetcode", difficulty |-> "medium", problem_url |-> [problems |-> "upstream"], description |-> "upstream", tags |-> <<>>, order_index |-> i - 1, origin |-> "api"]]

\* a search that answers a failed query with the empty list
search_without_fallback(topic, difficulty, limit, api) ==
  IF api.kind = "ok"
  THEN [kind |-> "return", value |-> _format_problems(Min(api.n, limit))]
  ELSE [kind |-> "return", value |-> <<>>]

\* LeetCodeScraper.search_problems_by_topic: [kind, value]
search_problems_by_topic(topic, difficulty, limit, api) ==
  IF api.kind = "ok"
  THEN [kind |-> "return", value |-> _format_problems(Min(api.n, limit))]
  ELSE [kind |-> "return", value |-> _get_fallback_problems(topic, difficulty, limit)]

(***************************************************************************)
(* Strings of the pipeline: a string is the prefix of length len of a text *)
(***************************************************************************)
Str(t) == [len |-> TextLen(t), text |-> t]

\* a slice that cuts nothing
PrefixUncut(s, n) == s

\* s[:n]
Prefix(s, n) == [s EXCEPT !.len = Min(@, n)]

\* len(" ".join(s.split()[:n]))
PreviewOf(s, n) == Min(PreviewLen(s.text, n), s.len)

(***************************************************************************)
(* Extractor (app/scrapers/base.py, app/scrapers/python_docs.py)           *)
(***************************************************************************)
\* size cap of a section body
ContentCap == 50000

\* cap of the code examples of a section
MaxCodeExamples == 5

\* cap of the code blocks _extract_code_examples collects
MaxExtractedExamples == 10

\* the pages a section URL answers with in the model: the text of the
\* content container and the number of its acceptable code blocks
Pages == {[text |-> EmptyText, blocks |-> 0], [text |-> Text(2, 120, 600), blocks |-> 3], [text |-> Text(100, 10000, 50000), blocks |-> 12]}

\* PythonDocsScraper._extract_code_examples: the number of examples
_extract_code_examples(page) == Min(page.blocks, MaxExtractedExamples)

\* PythonDocsScraper.scrape_section on a page with a content container
scrape_section(page) == [content_raw |-> Prefix(Str(page.text), ContentCap), code_examples |-> Min(_extract_code_examples(page), MaxCodeExamples), word_count |-> WordCount(page.text)]

\* the stub the index pass gives position order
Stub(order) == [title |-> order, url |-> order, slug |-> order, order_index |-> order]

\* {**item, **section} of scrape_all
full_section(item, section) == [title |-> item.title, url |-> item.url, slug |-> item.slug, order_index |-> item.order_index, content_raw |-> section.content_raw, source_url |-> item.url, code_examples |-> section.code_examples, word_count |-> section.word_count]

(***************************************************************************)
(* Fetching (app/scrapers/base.py)                                         *)
(***************************************************************************)
\* what a GET does: it answers 2xx with a page, it answers with another
\* status, or it raises (no connection, timeout)
FetchOutcomes == [kind : {"ok"}, status : {200}, page : Pages] \cup [kind : {"status"}, status : {404, 500}, page : {[text |-> EmptyText, blocks |-> 0]}] \cup [kind : {"network"}, status : {0}, page : {[text |-> EmptyText, blocks |-> 0]}]

\* a fetch that lets the errors of the connection through
fetch_page_uncaught(outcome) ==
  CASE outcome.kind = "ok" -> [html |-> TRUE, events |-> <<"get", "sleep">>, raised |-> FALSE]
    [] outcome.kind = "status" -> [html |-> FALSE, events |-> <<"get">>, raised |-> FALSE]
    [] OTHER -> [html |-> FALSE, events |-> <<"get">>, raised |-> TRUE]

\* BaseScraper.fetch_page: whether it returns the text or None, the GET
\* and the wait it made, and whether it raised
fetch_page(outcome) ==
  IF outcome.kind = "ok"
  THEN [html |-> TRUE, events |-> <<"get", "sleep">>, raised |-> FALSE]
  ELSE [html |-> FALSE, events |-> <<"get">>, raised |-> FALSE]

(***************************************************************************)
(* Index pass of the extractor (app/scrapers/python_docs.py)               *)
(***************************************************************************)
\* the number of links of an index page
MaxLinks == 3

\* the number of runs of equal characters a link text is made of
MaxTitleRuns == 3

\* length cap of a slug
SlugCap == 50

\* cap of the stubs of one index pass
MaxIndexSections == 15

\* the last order the index pass calls easy
EasyOrders == 5

\* the characters of link texts in the model: letters of both cases, a
\* digit, the hyphen, the underscore, the blank, a punctuation mark and a
\* letter outside ASCII
TitleChars == {"a", "B", "7", "-", "_", " ", "!", "é"}

\* the lengths of a run of equal characters
RunLengths == {1, 49}

\* a string as its runs of equal characters
Run(ch, n) == [ch |-> ch, n |-> n]

\* len(s)
RECURSIVE RunsLen(_)
RunsLen(t) == IF t = <<>> THEN 0 ELSE Head(t).n + RunsLen(Tail(t))

\* str.lower() of one character
LowerChar(c) == IF c = "B" THEN "b" ELSE c

\* \w of a str pattern: the letters and digits of Unicode and the underscore
IsWordChar(c) == c \in {"a", "b", "B", "7", "_", "é"}

\* \s
IsSpaceChar(c) == c = " "

\* title.lower()
LowerRuns(t) == [i \in 1..Len(t) |-> Run(LowerChar(t[i].ch), t[i].n)]

\* re.sub(r'[^\w\s-]', '', slug)
RECURSIVE RemoveOtherChars(_)
RemoveOtherChars(t) == IF t = <<>> THEN <<>> ELSE (IF IsWordChar(Head(t).ch) \/ IsSpaceChar(Head(t).ch) \/ Head(t).ch = "-" THEN <<Head(t)>> ELSE <<>>) \o RemoveOtherChars(Tail(t))

\* the string after its leading characters of the class [\s_]
RECURSIVE SkipBlanks(_)
SkipBlanks(t) == IF t # <<>> /\ (IsSpaceChar(Head(t).ch) \/ Head(t).ch = "_") THEN SkipBlanks(Tail(t)) ELSE t

\* re.sub(r'[\s_]+', '-', slug)
RECURSIVE HyphenateRuns(_)
HyphenateRuns(t) == IF t = <<>> THEN <<>> ELSE IF IsSpaceChar(Head(t).ch) \/ Head(t).ch = "_" THEN <<Run("-", 1)>> \o HyphenateRuns(SkipBlanks(t)) ELSE <<Head(t)>> \o HyphenateRuns(Tail(t))

\* str.lstrip('-')
RECURSIVE LStripHyphens(_)
LStripHyphens(t) == IF t # <<>> /\ Head(t).ch = "-" THEN LStripHyphens(Tail(t)) ELSE t

\* str.rstrip('-')
RECURSIVE RStripHyphens(_)
RStripHyphens(t) == IF t # <<>> /\ t[Len(t)].ch = "-" THEN RStripHyphens(SubSeq(t, 1, Len(t) - 1)) ELSE t

\* s[:n]
RECURSIVE TakeChars(_, _)
TakeChars(t, n) == IF t = <<>> \/ n = 0 THEN <<>> ELSE IF Head(t).n <= n THEN <<Head(t)>> \o TakeChars(Tail(t), n - Head(t).n) ELSE <<Run(Head(t).ch, n)>>

\* PythonDocsScraper._generate_slug
_generate_slug(title) == TakeChars(RStripHyphens(LStripHyphens(HyphenateRuns(RemoveOtherChars(LowerRuns(title))))), SlugCap)

\* PythonDocsScraper._estimate_difficulty on a title without a keyword
_estimate_difficulty(order, title) == IF order <= EasyOrders THEN "easy" ELSE "medium"

\* an href as what precedes its page name, the page name and what follows it
Href(lead, name, tail) == [lead |-> lead, name |-> name, tail |-> tail]

\* the links of an index page in the model: a page, the same page behind
\* "./", an anchor, an absolute link, the index, a subsection of a page, a
\* link to another host without a scheme, a link without href, another page
IndexLinks == {
  [href |-> Href("", "intro", ".html"), title |-> <<Run("a", 1)>>],
  [href |-> Href("./", "intro", ".html"), title |-> <<Run("a", 1)>>],
  [href |-> Href("#", "intro", ""), title |-> <<Run("a", 1)>>],
  [href |-> Href("https://docs.python.org/3/tutorial/", "intro", ".html"), title |-> <<Run("a", 1)>>],
  [href |-> Href("", "index", ".html"), title |-> <<Run("7", 1)>>],
  [href |-> Href("", "intro", ".html#using"), title |-> <<Run("a", 1), Run(" ", 1), Run("B", 1)>>],
  [href |-> Href("//example.org/", "intro", ".html"), title |-> <<Run("B", 1)>>],
  [href |-> Href("", "", ""), title |-> <<>>],
  [href |-> Href("", "classes", ".html"), title |-> <<Run("B", 1), Run("!", 1)>>] }

\* not href
HrefEmpty(h) == h.lead = "" /\ h.name = "" /\ h.tail = ""

\* href.startswith("#")
StartsWithHash(h) == h.lead = "#"

\* href.startswith("http")
StartsWithHttp(h) == h.lead = "https://docs.python.org/3/tutorial/"

\* href.endswith(".html")
EndsWithHtml(h) == h.tail = ".html"

\* "index.html" in href
NamesIndex(h) == h.name = "index" /\ h.tail \in {".html", ".html#using"}

\* BaseScraper.make_absolute_url: urljoin(base_url, href) as host, path and
\* fragment
make_absolute_url(h) ==
  CASE h.lead = "//example.org/" -> [host |-> "example.org", path |-> h.name, fragment |-> ""]
    [] HrefEmpty(h) -> [host |-> "docs.python.org", path |-> "", fragment |-> ""]
    [] h.lead = "#" -> [host |-> "docs.python.org", path |-> "", fragment |-> h.name]
    [] OTHER -> [host |-> "docs.python.org", path |-> h.name, fragment |-> IF h.tail = ".html#using" THEN "using" ELSE ""]

\* the loop of scrape_index over the links left, with the hrefs seen, the
\* next order and the stubs collected
\* a pass that never stops at the section limit
NeverReachedCap(order) == FALSE

\* "if order > 15: break" (lines 94-96)
ReachedCap(order) == order > MaxIndexSections

RECURSIVE IndexLoop(_, _, _, _)
IndexLoop(links, seen_urls, order, stubs) ==
  IF links = <<>> THEN stubs
  ELSE LET link == Head(links)
           href == link.href
       IN IF HrefEmpty(href) \/ StartsWithHash(href) \/ StartsWithHttp(href) THEN IndexLoop(Tail(links), seen_urls, order, stubs)
          ELSE IF ~EndsWithHtml(href) THEN IndexLoop(Tail(links), seen_urls, order, stubs)
          ELSE IF href \in seen_urls THEN IndexLoop(Tail(links), seen_urls, order, stubs)
          ELSE IF NamesIndex(href) THEN IndexLoop(Tail(links), seen_urls, order, stubs)
          ELSE LET stub == [title |-> link.title, url |-> make_absolute_url(href), slug |-> _generate_slug(link.title), order_index |-> order, difficulty |-> _estimate_difficulty(order, link.title), href |-> href]
               IN IF ReachedCap(order + 1) THEN Append(stubs, stub)
                  ELSE IndexLoop(Tail(links), seen_urls \cup {href}, order + 1, Append(stubs, stub))

\* PythonDocsScraper.scrape_index on a fetched index page with a content
\* container: the stubs, each with the href it was made from
scrape_index(links) == IndexLoop(links, {}, 1, <<>>)

(***************************************************************************)
(* Video matcher (app/scrapers/youtube.py)                                 *)
(***************************************************************************)
\* the number of number-and-letter parts of a duration
MaxParts == 3

\* the numbers of the parts of a duration
PartNumbers == {1, 2, 3}

\* the letters of the parts of a duration
PartUnits == {"H", "M", "S", "X"}

\* what a duration begins with
DurationLeads == {"PT", "P", "", "P1DT"}

\* seconds of an hour and of a minute
SecondsPerHour == 3600

SecondsPerMinute == 60

\* the optional group (?:(\d+)U)? at the parts left: the number it captured
\* (0 when it did not take part) and the parts after it
Group(parts, unit) == IF parts # <<>> /\ Head(parts).unit = unit THEN [n |-> Head(parts).n, rest |-> Tail(parts)] ELSE [n |-> 0, rest |-> parts]

\* YouTubeIntegration._parse_duration
_parse_duration(duration_iso) ==
  IF duration_iso.lead # "PT" THEN 0
  ELSE LET h == Group(duration_iso.parts, "H")
           m == Group(h.rest, "M")
           s == Group(m.rest, "S")
       IN h.n * SecondsPerHour + m.n * SecondsPerMinute + s.n

\* an integer or None
SomeInt(n) == [is_none |-> FALSE, value |-> n]

NoneInt == [is_none |-> TRUE, value |-> 0]

\* the details of a video: none for its id, details without a duration, or
\* details with one
NoDetail == [found |-> FALSE, has_duration |-> FALSE, duration |-> [lead |-> "", parts |-> <<>>]]

NoDuration == [found |-> TRUE, has_duration |-> FALSE, duration |-> [lead |-> "", parts |-> <<>>]]

Detail(duration_iso) == [found |-> TRUE, has_duration |-> TRUE, duration |-> duration_iso]

\* duration_seconds of YouTubeIntegration._format_videos for one item
duration_seconds(detail) == IF detail.found /\ detail.has_duration /\ ~(detail.duration.lead = "" /\ detail.duration.parts = <<>>) THEN SomeInt(_parse_duration(detail.duration)) ELSE NoneInt

(***************************************************************************)
(* Topic mapping of the problem matcher (app/scrapers/leetcode.py)         *)
(***************************************************************************)
LEETCODE_TOPIC_MAPPING == ("lists" :> "array") @@ ("strings" :> "string") @@ ("dictionaries" :> "hash-table") @@ ("sets" :> "hash-table") @@ ("functions" :> "design") @@ ("classes" :> "design") @@ ("recursion" :> "recursion") @@ ("sorting" :> "sorting") @@ ("searching" :> "binary-search") @@ ("trees" :> "tree") @@ ("graphs" :> "graph") @@ ("dynamic programming" :> "dynamic-programming")

\* the topics a caller asks problems for in the model
DocTopics == {"lists", "Lists", "dictionaries", "dictionary", "decorators", "trees", "dynamic programming"}

\* leetcode_tag of get_problems_for_topic
leetcode_tag(topic) == LET topic_lower == Lower(topic) IN IF topic_lower \in DOMAIN LEETCODE_TOPIC_MAPPING THEN LEETCODE_TOPIC_MAPPING[topic_lower] ELSE topic_lower

\* get_problems_for_topic
get_problems_for_topic(topic, difficulty, limit, api) == search_problems_by_topic(leetcode_tag(topic), difficulty, limit, api)

(***************************************************************************)
(* Resources of a section (app/models, app/services/scraper_service.py)    *)
(***************************************************************************)
\* the number of videos a search answers with
MaxVideos == 2

\* the number of enrichment requests served one after the other
MaxPasses == 2

\* default of the column order_index of VideoResource
DefaultOrderIndex == 0

\* the columns of VideoResource
VideoResourceColumns == {"id", "created_at", "updated_at", "doc_section_id", "title", "platform", "video_url", "thumbnail_url", "duration_seconds", "channel_name", "views", "description", "order_index"}

\* the properties of VideoResource that have no setter
VideoResourceReadOnly == {"url"}

\* the columns of PracticeProblem
PracticeProblemColumns == {"id", "created_at", "updated_at", "doc_section_id", "title", "platform", "problem_url", "difficulty", "topics"}

\* the methods of ScraperService
ScraperServiceMethods == {"_get_or_create_language", "_generate_summary", "scrape_and_store_language", "add_videos_to_sections"}

\* the keyword arguments add_videos_to_sections constructs a VideoResource
\* with: doc_section_id and the keys of a formatted video
PassVideoKwargs == {"doc_section_id", "title", "video_url", "platform", "channel_name", "thumbnail_url", "duration_seconds", "views"}

\* the keyword arguments scrape_videos_for_section constructs one with
\* (app/api/v1/videos.py)
EndpointVideoKwargs == {"doc_section_id", "title", "url", "platform", "channel_name", "thumbnail_url", "duration_seconds", "description", "order_index"}

\* the constructor of a mapped class on keyword arguments: TypeError for a
\* name the class has not, AttributeError for a property without a setter,
\* else no exception
ConstructorError(kwargs, columns, readonly) ==
  IF ~(kwargs \subseteq columns \cup readonly) THEN "TypeError"
  ELSE IF kwargs \cap readonly # {} THEN "AttributeError"
  ELSE None

\* the VideoResource row of an object constructed with kwargs
VideoRow(id, doc_section_id, kwargs, order_index) == [id |-> id, doc_section_id |-> doc_section_id, order_index |-> IF "order_index" \in kwargs THEN order_index ELSE DefaultOrderIndex]

\* the greatest element of a non-empty set of integers
MaxOf(S) == CHOOSE x \in S : \A y \in S : y <= x

\* max_order of the section endpoints: scalar() or -1
max_order(rows, doc_section_id) ==
  LET orders == {r.order_index : r \in {x \in rows : x.doc_section_id = doc_section_id}}
  IN IF orders = {} \/ MaxOf(orders) = 0 THEN -1 ELSE MaxOf(orders)

\* a db.add that also makes the row durable
AddAndPersist(store, session, rows) == [store |-> store \cup rows, session |-> session \cup rows]

\* db.add of rows: the durable rows and the rows of the open transaction
AddToSession(store, session, rows) == [store |-> store, session |-> session \cup rows]

(***************************************************************************)
(* Orchestrator (app/services/scraper_service.py)                          *)
(***************************************************************************)
\* language names an ingest is requested for in the model
LanguageNames == {"Python", "python", "Java"}

\* "Content will be available soon."
PlaceholderBody == Str(Text(1, 5, 27))

\* the length under which _generate_summary does not call the adapter
MinPreviewForSummary == 100

\* the number of characters of the preview _generate_summary submits
SummaryInputCap == 3000

\* the number of words of the preview
PreviewWords == 100

\* a _generate_summary without its try: the exception of the adapter
\* leaves it
_generate_summary_unguarded(content_len, groq, claude, groqOut, claudeOut) ==
  IF content_len = 0 \/ content_len < MinPreviewForSummary
  THEN "Introduction to programming concepts."
  ELSE LET truncated == Min(content_len, SummaryInputCap)
           r == summarize_documentation(Content(truncated, truncated), 150, "concise", "Python", groq, claude, groqOut, claudeOut)
       IN IF r.value # "" THEN r.value ELSE "Learn programming fundamentals."

\* ScraperService._generate_summary
_generate_summary(content_len, groq, claude, groqOut, claudeOut) ==
  IF content_len = 0 \/ content_len < MinPreviewForSummary
  THEN "Introduction to programming concepts."
  ELSE LET truncated == Min(content_len, SummaryInputCap)
           r == summarize_documentation(Content(truncated, truncated), 150, "concise", "Python", groq, claude, groqOut, claudeOut)
       IN IF r.kind = "raise" THEN "Comprehensive programming tutorial."
          ELSE IF r.value # "" THEN r.value ELSE "Learn programming fundamentals."

\* what the adapter did with the preview _generate_summary got: it was
\* not called, it returned, or it raised
AdapterOutcome(content_len, groq, claude, groqOut, claudeOut) ==
  IF content_len = 0 \/ content_len < MinPreviewForSummary
  THEN "not_called"
  ELSE summarize_documentation(Content(Min(content_len, SummaryInputCap), Min(content_len, SummaryInputCap)), 150, "concise", "Python", groq, claude, groqOut, claudeOut).kind

\* the texts _generate_summary returns when the adapter gave no summary
PlaceholderSummaries == {"Introduction to programming concepts.", "Learn programming fundamentals.", "Comprehensive programming tutorial."}

\* the exceptions the adapter raises
AdapterExceptions == {BadRequestException, ServiceUnavailableException}

\* a quantile over the 1-based order_index instead of the 0-based position
is_quick_path_one_based(idx, total_sections) == 5 * (idx + 1) < 2 * total_sections

\* idx < total_sections * 0.4 (line 136), in integers
is_quick_path(idx, total_sections) == 5 * idx < 2 * total_sections

\* "sections_scraped" of the result (line 188)
sections_scraped(data) == Len(data)

\* "quick_path_sections" of the result (line 190)
quick_path_sections(stored, total_sections) == Cardinality({i \in 0..(stored - 1) : is_quick_path(i, total_sections)})

\* the session: the rows flushed in the open transaction
EmptySession == [languages |-> {}, sections |-> {}]

\* a commit that makes nothing durable
CommitNothing(table, flushed) == table

\* await db.commit(): the rows of the transaction become durable
Commit(table, flushed) == table \cup flushed

\* await db.rollback(): the rows of the transaction are gone
Rollback(session) == EmptySession

\* what the database does with the INSERT and COMMIT of one section
DbOutcomes == {"ok", "flush_error", "commit_error"}

\* a handler that lets the exception of a section leave the run
ReraiseSectionError(exc) == "raised"

\* except Exception of the store loop: rollback, log, continue; where the
\* run is after the exception exc of one section
OnSectionError(exc) == "store"

(***************************************************************************)
(* State                                                                   *)
(***************************************************************************)
VARIABLES
  languages,        \* the durable Language rows
  sections,         \* the durable DocSection rows
  pending,          \* the rows flushed in the request's open transaction
  pc,               \* where the admin scrape request is
  request,          \* language_name of the request
  language,         \* the Language object scrape_and_store_language holds
  created,          \* whether _get_or_create_language created it
  index,            \* the number of stubs scrape_index returned
  scraped,          \* the number of stubs scrape_all has been through
  absent,           \* the stubs whose scrape_section returned None
  sections_data,    \* the list scrape_all returns
  idx,              \* the position of the store loop
  stored_count,     \* stored_count of the store loop
  attempts,         \* what happened to each section of the store loop
  result,           \* the dictionary scrape_and_store_language returned
  raised,           \* the exception scrape_and_store_language raised
  runs,             \* the number of requests served
  prev,             \* per language name, the language_id last returned
  groq_client,      \* whether the primary provider is configured
  anthropic_client, \* whether the secondary provider is configured
  aiCall,           \* the last call of the summarize endpoint
  search,           \* the last problem search
  call,             \* the last call of a function of the scrapers
  crawl,            \* the scrape session of a scraper
  enrich,           \* the enrichment request being served
  video_resources,  \* the durable VideoResource rows
  practice_problems, \* the durable PracticeProblem rows
  session,          \* the two concurrent admin scrape requests
  learning_paths,   \* the durable LearningPath rows
  utcnow,           \* the clock
  worker            \* the store loop and the executor its calls run in

vars == <<languages, sections, pending, pc, request, language, created, index, scraped, absent, sections_data, idx, stored_count, attempts, result, raised, runs, prev, groq_client, anthropic_client, aiCall, search, call, crawl, enrich, video_resources, practice_problems, session, learning_paths, utcnow, worker>>

\* the state of the scrapers' functions, of a scrape session, of the
\* enrichment, of the concurrent requests and of the learning paths
resourceVars == <<call, crawl, enrich, video_resources, practice_problems, session, learning_paths, utcnow, worker>>

ingestVars == <<languages, sections, pending, pc, request, language, created, index, scraped, absent, sections_data, idx, stored_count, attempts, result, raised, runs, prev>>

\* the ids in use
UsedIds == {l.id : l \in languages \cup pending.languages} \cup {x.id : x \in sections \cup pending.sections} \cup (IF language = NoneObj THEN {} ELSE {language.id}) \cup {prev[n] : n \in LanguageNames}

\* uuid4(): an id not in use
FreshId == CHOOSE i \in 1..(Cardinality(UsedIds) + 1) : i \notin UsedIds

\* the state between two requests
IdleRun ==
  /\ pc = "idle"
  /\ request = None
  /\ language = NoneObj
  /\ created = FALSE
  /\ index = 0
  /\ scraped = 0
  /\ absent = {}
  /\ sections_data = <<>>
  /\ idx = 0
  /\ stored_count = 0
  /\ attempts = <<>>
  /\ result = NoneObj
  /\ raised = None

\* no request is being served and none has been
InitIngest ==
  /\ sections = {}
  /\ pending = EmptySession
  /\ IdleRun
  /\ runs = 0
  /\ prev = [n \in LanguageNames |-> 0]

\* the Language rows a request can find: none, or the language Python
\* (an earlier ingest or the language administration created it)
InitialLanguages == {{}, {[id |-> 1, name |-> "Python", slug |-> "python"]}}

\* AIService.__init__: a client for each provider whose library and key are
\* there
InitAi ==
  /\ groq_client \in BOOLEAN
  /\ anthropic_client \in BOOLEAN
  /\ aiCall = NoneObj

InitSearch == search = NoneObj

\* the two concurrent admin scrape requests
Runs == {"A", "B"}

\* a request that has not begun
IdleSession == [pc |-> "start", language |-> NoneObj, flushed |-> {}, todo |-> 0, result |-> NoneObj, raised |-> None]

\* no store loop runs and the executor is idle
IdleLoop == [pc |-> "idle", total |-> 0, idx |-> 0, in_flight |-> {}, future |-> None, committing |-> {}]

\* no enrichment request is being served, served have been served
IdleEnrich(served) == [pc |-> "idle", op |-> None, language_id |-> 0, max |-> 0, todo |-> <<>>, session |-> {}, gathered |-> {}, total_videos |-> 0, before |-> {}, outcome |-> [kind |-> None, value |-> 0], served |-> served]

\* no function of the scrapers has been called, no scrape session is open,
\* no enrichment request is being served and no resource is stored
InitResources ==
  /\ call = NoneObj
  /\ crawl = [pc |-> "closed", index |-> 0, scraped |-> 0, log |-> <<>>, fetched |-> <<>>, sections |-> <<>>, raised |-> FALSE]
  /\ enrich = IdleEnrich(0)
  /\ video_resources = {}
  /\ practice_problems = {}
  /\ session = [r \in Runs |-> IdleSession]
  /\ learning_paths = {}
  /\ utcnow = 0
  /\ worker = IdleLoop

\* a process that gets one admin scrape request
Init == languages \in InitialLanguages /\ InitIngest /\ InitAi /\ InitSearch /\ InitResources

\* a process on an empty store
InitEmpty == languages = {} /\ InitIngest /\ InitAi /\ InitSearch /\ InitResources

\* a process on an empty store with both providers configured
InitConfigured == InitEmpty /\ groq_client /\ anthropic_client

(***************************************************************************)
(* The admin scrape request (app/api/v1/admin.py) and the ingestion run    *)
(***************************************************************************)
\* the row the store loop builds for section_data at position i of total
SectionRow(section_data, i, total_sections, summary) ==
  LET body == IF section_data.content_raw.len = 0 THEN PlaceholderBody ELSE section_data.content_raw
  IN [id |-> FreshId, language_id |-> language.id, title |-> section_data.title, order_index |-> section_data.order_index, content_raw |-> Prefix(body, ContentCap), content_len |-> Prefix(body, ContentCap).len, content_summary |-> summary, is_quick_path |-> is_quick_path(i, total_sections), is_deep_path |-> TRUE, code_examples |-> Min(section_data.code_examples, MaxCodeExamples)]

\* the summary of section_data
SectionSummary(section_data, groqOut, claudeOut) ==
  LET body == IF section_data.content_raw.len = 0 THEN PlaceholderBody ELSE section_data.content_raw
  IN _generate_summary(PreviewOf(body, PreviewWords), groq_client, anthropic_client, groqOut, claudeOut)

\* what the adapter did for section_data
SectionAdapterOutcome(section_data, groqOut, claudeOut) ==
  LET body == IF section_data.content_raw.len = 0 THEN PlaceholderBody ELSE section_data.content_raw
  IN AdapterOutcome(PreviewOf(body, PreviewWords), groq_client, anthropic_client, groqOut, claudeOut)

\* the exception of the INSERT and COMMIT of a row, None when there is none:
\* the database fails, or the row names a language that is not there
PersistException(row, db) ==
  IF db = "flush_error" THEN "DBAPIError"
  ELSE IF ~(\E l \in languages \cup pending.languages : l.id = row.language_id) THEN "IntegrityError"
  ELSE IF db = "commit_error" THEN "DBAPIError"
  ELSE None

\* scrape_and_store_language up to the choice of the scraper, with
\* _get_or_create_language; the session of the request is new
StartIngest(name) ==
  /\ pc = "idle"
  /\ request' = name
  /\ LET found == {l \in languages \cup pending.languages : l.name = name}
         new == [id |-> FreshId, name |-> name, slug |-> Lower(name)]
         clash == \E l \in languages \cup pending.languages : l.slug = new.slug
     IN IF found # {}
        THEN /\ language' = CHOOSE l \in found : TRUE
             /\ created' = FALSE
             /\ pending' = pending
             /\ pc' = IF Lower(name) = "python" THEN "index" ELSE "raised"
             /\ raised' = IF Lower(name) = "python" THEN None ELSE "ValueError"
        ELSE IF clash
             THEN /\ language' = NoneObj
                  /\ created' = FALSE
                  /\ pending' = Rollback(pending)
                  /\ pc' = "raised"
                  /\ raised' = "IntegrityError"
             ELSE /\ language' = new
                  /\ created' = TRUE
                  /\ pending' = [pending EXCEPT !.languages = @ \cup {new}]
                  /\ pc' = IF Lower(name) = "python" THEN "index" ELSE "raised"
                  /\ raised' = IF Lower(name) = "python" THEN None ELSE "ValueError"
  /\ UNCHANGED <<languages, sections, index, scraped, absent, sections_data, idx, stored_count, attempts, result, runs, prev>>

\* scrape_all: scrape_index returned n stubs (none when the index page
\* could not be fetched)
ScrapeIndex(n) ==
  /\ pc = "index"
  /\ index' = n
  /\ pc' = IF n = 0 THEN "store" ELSE "scraping"
  /\ UNCHANGED <<languages, sections, pending, request, language, created, scraped, absent, sections_data, idx, stored_count, attempts, result, raised, runs, prev>>

\* scrape_all: one turn of the loop over the index; section is None when
\* the fetch failed or the page has no content container
ScrapeSection(section) ==
  /\ pc = "scraping"
  /\ scraped < index
  /\ LET item == Stub(scraped + 1)
     IN IF section # NoneObj
        THEN /\ sections_data' = Append(sections_data, full_section(item, section))
             /\ absent' = absent
        ELSE /\ sections_data' = sections_data
             /\ absent' = absent \cup {item.order_index}
  /\ scraped' = scraped + 1
  /\ pc' = IF scraped + 1 = index THEN "store" ELSE "scraping"
  /\ UNCHANGED <<languages, sections, pending, request, language, created, index, idx, stored_count, attempts, result, raised, runs, prev>>

\* one turn of the store loop
StoreSection(groqOut, claudeOut, db) ==
  /\ pc = "store"
  /\ idx < Len(sections_data)
  /\ LET section_data == sections_data[idx + 1]
         total_sections == Len(sections_data)
         summary == SectionSummary(section_data, groqOut, claudeOut)
         row == SectionRow(section_data, idx, total_sections, summary)
         ai == SectionAdapterOutcome(section_data, groqOut, claudeOut)
         exc == IF summary \in AdapterExceptions THEN summary ELSE PersistException(row, db)
     IN IF "title" \notin DOMAIN section_data
        THEN /\ attempts' = Append(attempts, [order_index |-> section_data.order_index, injected |-> db # "ok", exc |-> None, stored |-> FALSE, id |-> 0, ai |-> "not_called"])
             /\ UNCHANGED <<languages, sections, pending, stored_count, pc, raised>>
        ELSE IF exc = None
             THEN /\ languages' = Commit(languages, pending.languages)
                  /\ sections' = Commit(sections, pending.sections \cup {row})
                  /\ pending' = EmptySession
                  /\ stored_count' = stored_count + 1
                  /\ attempts' = Append(attempts, [order_index |-> section_data.order_index, injected |-> FALSE, exc |-> None, stored |-> TRUE, id |-> row.id, ai |-> ai])
                  /\ UNCHANGED <<pc, raised>>
             ELSE /\ pending' = Rollback(pending)
                  /\ attempts' = Append(attempts, [order_index |-> section_data.order_index, injected |-> db # "ok", exc |-> exc, stored |-> FALSE, id |-> 0, ai |-> ai])
                  /\ pc' = OnSectionError(exc)
                  /\ raised' = IF OnSectionError(exc) = "raised" THEN exc ELSE raised
                  /\ UNCHANGED <<languages, sections, stored_count>>
  /\ idx' = idx + 1
  /\ UNCHANGED <<request, language, created, index, scraped, absent, sections_data, result, runs, prev>>

\* the return of scrape_and_store_language
ReturnResult ==
  /\ pc = "store"
  /\ idx = Len(sections_data)
  /\ result' = [language_id |-> language.id, language_name |-> request, sections_scraped |-> sections_scraped(sections_data), sections_stored |-> stored_count, quick_path_sections |-> quick_path_sections(stored_count, Len(sections_data))]
  /\ pc' = "returned"
  /\ UNCHANGED <<languages, sections, pending, request, language, created, index, scraped, absent, sections_data, idx, stored_count, attempts, raised, runs, prev>>

\* the endpoint answers (success or error response) and get_db commits and
\* closes the session
CloseRequest ==
  /\ pc \in {"returned", "raised"}
  /\ languages' = Commit(languages, pending.languages)
  /\ sections' = Commit(sections, pending.sections)
  /\ pending' = EmptySession
  /\ prev' = IF pc = "returned" THEN [prev EXCEPT ![request] = result.language_id] ELSE prev
  /\ runs' = runs + 1
  /\ pc' = "idle"
  /\ request' = None
  /\ language' = NoneObj
  /\ created' = FALSE
  /\ index' = 0
  /\ scraped' = 0
  /\ absent' = {}
  /\ sections_data' = <<>>
  /\ idx' = 0
  /\ stored_count' = 0
  /\ attempts' = <<>>
  /\ result' = NoneObj
  /\ raised' = None

\* the steps of a request that has started, over pages the site answers
\* with and outcomes of the provider calls
IngestSteps(pages, outcomes) ==
  \/ \E n \in 0..MaxStubs : ScrapeIndex(n)
  \/ \E page \in pages : ScrapeSection(scrape_section(page))
  \/ ScrapeSection(NoneObj)
  \/ \E groqOut \in outcomes, claudeOut \in outcomes, db \in DbOutcomes : StoreSection(groqOut, claudeOut, db)
  \/ ReturnResult
  \/ CloseRequest

\* one admin scrape request
IngestNext ==
  \/ runs = 0 /\ \E name \in LanguageNames : StartIngest(name)
  \/ IngestSteps(Pages, ProviderOutcomes)

Next == IngestNext /\ UNCHANGED <<groq_client, anthropic_client, aiCall, search>> /\ UNCHANGED resourceVars

Spec == Init /\ [][Next]_vars

\* admin scrape requests one after the other, on a site of empty pages
RepeatNext ==
  /\ \/ runs < MaxRuns /\ \E name \in LanguageNames : StartIngest(name)
     \/ IngestSteps({[text |-> EmptyText, blocks |-> 0]}, {"X"})
  /\ UNCHANGED <<groq_client, anthropic_client, aiCall, search>>
  /\ UNCHANGED resourceVars

RepeatSpec == InitEmpty /\ [][RepeatNext]_vars

(***************************************************************************)
(* The summarize endpoint (app/api/v1/ai.py) calling the adapter           *)
(***************************************************************************)
\* the contents a summary is requested for in the model: len(content) and
\* len(content.strip())
ContentSamples == {Content(0, 0), Content(30, 30), Content(49, 49), Content(50, 50), Content(60, 0), Content(60, 40), Content(200, 200), Content(60000, 60000)}

\* the word limits a summary is requested with in the model
MaxLengths == {150, 600}

\* one call of summarize_documentation by the endpoint
Summarize(content, max_length, style, language_context, groqOut, claudeOut) ==
  /\ aiCall = NoneObj
  /\ aiCall' = [content |-> content, max_length |-> max_length, style |-> style, language_context |-> language_context, groqOut |-> groqOut, claudeOut |-> claudeOut, result |-> summarize_documentation(content, max_length, style, language_context, groq_client, anthropic_client, groqOut, claudeOut)]
  /\ UNCHANGED <<groq_client, anthropic_client, search>>
  /\ UNCHANGED ingestVars
  /\ UNCHANGED resourceVars

\* the endpoint has answered the request
SummarizeDone ==
  /\ aiCall # NoneObj
  /\ aiCall' = NoneObj
  /\ UNCHANGED <<groq_client, anthropic_client, search>>
  /\ UNCHANGED ingestVars
  /\ UNCHANGED resourceVars

SummarizeNext ==
  \/ SummarizeDone
  \/ \E content \in ContentSamples, max_length \in MaxLengths, style \in Styles, language_context \in {None, "Python"}, groqOut \in ProviderOutcomes, claudeOut \in ProviderOutcomes : Summarize(content, max_length, style, language_context, groqOut, claudeOut)

SummarizeSpec == InitEmpty /\ [][SummarizeNext]_vars

(***************************************************************************)
(* A problem search                                                        *)
(***************************************************************************)
\* one call of search_problems_by_topic
Search(topic, difficulty, limit, api) ==
  /\ search = NoneObj
  /\ search' = [topic |-> topic, difficulty |-> difficulty, limit |-> limit, api |-> api, result |-> search_problems_by_topic(topic, difficulty, limit, api)]
  /\ UNCHANGED <<groq_client, anthropic_client, aiCall>>
  /\ UNCHANGED ingestVars
  /\ UNCHANGED resourceVars

\* the caller has taken the result
SearchDone ==
  /\ search # NoneObj
  /\ search' = NoneObj
  /\ UNCHANGED <<groq_client, anthropic_client, aiCall>>
  /\ UNCHANGED ingestVars
  /\ UNCHANGED resourceVars

SearchNext ==
  \/ SearchDone
  \/ \E topic \in SearchTopics, difficulty \in SearchDifficulties, limit \in 1..MaxLimit, api \in ApiOutcomes : Search(topic, difficulty, limit, api)

SearchSpec == InitEmpty /\ [][SearchNext]_vars

(***************************************************************************)
(* Calls of the functions of the scrapers                                  *)
(***************************************************************************)
\* the sequences of at most n elements of S
SeqsUpTo(S, n) == UNION {[1..k -> S] : k \in 0..n}

\* the link texts of the model
Titles == SeqsUpTo([ch : TitleChars, n : RunLengths], MaxTitleRuns)

\* the index pages of the model: the links of their content container
IndexPages == SeqsUpTo(IndexLinks, MaxLinks)

\* the number of links a long index page has beyond the section limit
MaxOverflow == 2

\* the k-th link of a long index page: a page of the tutorial
NumberedLink(k) == [href |-> Href("", ToString(k), ".html"), title |-> <<Run("a", 1)>>]

\* the long index pages of the model: a link of IndexLinks, then n links
\* to n pages, about as many as the section limit, then the first of them
\* once more
LongIndexPages == {<<x>> \o [k \in 1..n |-> NumberedLink(k)] \o <<NumberedLink(1)>> : x \in IndexLinks, n \in (MaxIndexSections - 2)..(MaxIndexSections + MaxOverflow)}

\* the durations of the model
Durations == [lead : DurationLeads, parts : SeqsUpTo([n : PartNumbers, unit : PartUnits], MaxParts)]

\* one call of _generate_slug
GenerateSlug(title) ==
  /\ call = NoneObj
  /\ call' = [fn |-> "_generate_slug", title |-> title, slug |-> _generate_slug(title)]
  /\ UNCHANGED <<groq_client, anthropic_client, aiCall, search, crawl, enrich, video_resources, practice_problems, session, learning_paths, utcnow, worker>>
  /\ UNCHANGED ingestVars

\* one call of scrape_index whose fetch of the index page succeeded
ScrapeIndexPage(links) ==
  /\ call = NoneObj
  /\ call' = [fn |-> "scrape_index", links |-> links, stubs |-> scrape_index(links)]
  /\ UNCHANGED <<groq_client, anthropic_client, aiCall, search, crawl, enrich, video_resources, practice_problems, session, learning_paths, utcnow, worker>>
  /\ UNCHANGED ingestVars

\* _format_videos on one search item and the details found for it
FormatVideo(detail) ==
  /\ call = NoneObj
  /\ call' = [fn |-> "_format_videos", detail |-> detail, duration_seconds |-> duration_seconds(detail)]
  /\ UNCHANGED <<groq_client, anthropic_client, aiCall, search, crawl, enrich, video_resources, practice_problems, session, learning_paths, utcnow, worker>>
  /\ UNCHANGED ingestVars

\* one call of get_problems_for_topic
GetProblemsForTopic(topic, difficulty, limit, api) ==
  /\ call = NoneObj
  /\ call' = [fn |-> "get_problems_for_topic", topic |-> topic, leetcode_tag |-> leetcode_tag(topic), result |-> get_problems_for_topic(topic, difficulty, limit, api)]
  /\ UNCHANGED <<groq_client, anthropic_client, aiCall, search, crawl, enrich, video_resources, practice_problems, session, learning_paths, utcnow, worker>>
  /\ UNCHANGED ingestVars

\* the caller has taken the result
CallDone ==
  /\ call # NoneObj
  /\ call' = NoneObj
  /\ UNCHANGED <<groq_client, anthropic_client, aiCall, search, crawl, enrich, video_resources, practice_problems, session, learning_paths, utcnow, worker>>
  /\ UNCHANGED ingestVars

\* the index pass of the extractor
IndexNext ==
  \/ CallDone
  \/ \E links \in IndexPages \cup LongIndexPages : ScrapeIndexPage(links)

IndexSpec == InitConfigured /\ [][IndexNext]_vars

\* the slugs of the extractor
SlugNext ==
  \/ CallDone
  \/ \E title \in Titles : GenerateSlug(title)

SlugSpec == InitConfigured /\ [][SlugNext]_vars

\* the matchers
MatcherNext ==
  \/ CallDone
  \/ \E detail \in {NoDetail, NoDuration} \cup {Detail(d) : d \in Durations} : FormatVideo(detail)
  \/ \E topic \in DocTopics, difficulty \in {None, "easy"}, limit \in 1..MaxLimit, api \in ApiOutcomes : GetProblemsForTopic(topic, difficulty, limit, api)

MatcherSpec == InitConfigured /\ [][MatcherNext]_vars

(***************************************************************************)
(* A scrape session: scrape_all inside "async with scraper"                *)
(***************************************************************************)
\* a session that has not fetched anything
NewSession(pc_) == [pc |-> pc_, index |-> 0, scraped |-> 0, log |-> <<>>, fetched |-> <<>>, sections |-> <<>>, raised |-> FALSE]

\* __aenter__ and the start of scrape_all
OpenSession ==
  /\ crawl.pc = "closed"
  /\ crawl' = NewSession("index")
  /\ UNCHANGED <<groq_client, anthropic_client, aiCall, search, call, enrich, video_resources, practice_problems, session, learning_paths, utcnow, worker>>
  /\ UNCHANGED ingestVars

\* scrape_index: the fetch of the index page, and n stubs when it succeeded
CrawlIndex(outcome, n) ==
  /\ crawl.pc = "index"
  /\ LET r == fetch_page(outcome)
     IN crawl' = [crawl EXCEPT !.pc = IF r.raised THEN "closed" ELSE "sections",
                               !.index = IF r.html THEN n ELSE 0,
                               !.log = @ \o r.events,
                               !.fetched = Append(@, [outcome |-> outcome, html |-> r.html]),
                               !.raised = r.raised]
  /\ UNCHANGED <<groq_client, anthropic_client, aiCall, search, call, enrich, video_resources, practice_problems, session, learning_paths, utcnow, worker>>
  /\ UNCHANGED ingestVars

\* one turn of the loop of scrape_all: scrape_section of the next stub
CrawlSection(outcome) ==
  /\ crawl.pc = "sections"
  /\ crawl.scraped < crawl.index
  /\ LET r == fetch_page(outcome)
         item == Stub(crawl.scraped + 1)
     IN crawl' = [crawl EXCEPT !.pc = IF r.raised THEN "closed" ELSE "sections",
                               !.scraped = @ + 1,
                               !.log = @ \o r.events,
                               !.fetched = Append(@, [outcome |-> outcome, html |-> r.html]),
                               !.sections = IF r.html THEN Append(@, full_section(item, scrape_section(outcome.page))) ELSE @,
                               !.raised = r.raised]
  /\ UNCHANGED <<groq_client, anthropic_client, aiCall, search, call, enrich, video_resources, practice_problems, session, learning_paths, utcnow, worker>>
  /\ UNCHANGED ingestVars

\* scrape_all returns its sections
CrawlReturn ==
  /\ crawl.pc = "sections"
  /\ crawl.scraped = crawl.index
  /\ crawl' = [crawl EXCEPT !.pc = "returned"]
  /\ UNCHANGED <<groq_client, anthropic_client, aiCall, search, call, enrich, video_resources, practice_problems, session, learning_paths, utcnow, worker>>
  /\ UNCHANGED ingestVars

\* __aexit__
CloseSession ==
  /\ crawl.pc = "returned"
  /\ crawl' = [crawl EXCEPT !.pc = "closed"]
  /\ UNCHANGED <<groq_client, anthropic_client, aiCall, search, call, enrich, video_resources, practice_problems, session, learning_paths, utcnow, worker>>
  /\ UNCHANGED ingestVars

CrawlNext ==
  \/ OpenSession
  \/ \E outcome \in FetchOutcomes, n \in 0..MaxStubs : CrawlIndex(outcome, n)
  \/ \E outcome \in FetchOutcomes : CrawlSection(outcome)
  \/ CrawlReturn
  \/ CloseSession

CrawlSpec == InitConfigured /\ [][CrawlNext]_vars

(***************************************************************************)
(* Enrichment requests (app/api/v1/admin.py, videos.py, practice.py)       *)
(***************************************************************************)
\* a stored section of language 1 at position order, with the id given
EnrichSection(id, order) == [id |-> id, language_id |-> 1, title |-> order, order_index |-> order, content_raw |-> PlaceholderBody, content_len |-> PlaceholderBody.len, content_summary |-> "Introduction to programming concepts.", is_quick_path |-> is_quick_path(order - 1, 2), is_deep_path |-> TRUE, code_examples |-> 0]

\* the stores an enrichment request finds: the language Python with no
\* section, one section or two
EnrichStores == {{}, {EnrichSection(2, 1)}, {EnrichSection(2, 1), EnrichSection(3, 2)}}

\* a process whose store has the language Python and sections of it
InitEnrich ==
  /\ languages = {[id |-> 1, name |-> "Python", slug |-> "python"]}
  /\ sections \in EnrichStores
  /\ pending = EmptySession
  /\ IdleRun
  /\ runs = 0
  /\ prev = [n \in LanguageNames |-> 0]
  /\ groq_client = TRUE
  /\ anthropic_client = TRUE
  /\ aiCall = NoneObj
  /\ InitSearch
  /\ InitResources

\* the ids a request is made with: of the language, of a section or two,
\* of nothing
RequestIds == {1, 2, 3, 9}

\* the ids of the sections of a language, in the order of their ids
RECURSIVE SectionIdsFrom(_, _)
SectionIdsFrom(language_id, least) ==
  LET ids == {x.id : x \in {y \in sections : y.language_id = language_id /\ y.id >= least}}
  IN IF ids = {} THEN <<>> ELSE LET first == CHOOSE i \in ids : \A j \in ids : i <= j IN <<first>> \o SectionIdsFrom(language_id, first + 1)

\* n video rows for a section, with ids not in use
NewVideoRows(n, doc_section_id, kwargs, first_order) ==
  LET used == Cardinality(video_resources \cup enrich.session)
  IN {VideoRow(used + k, doc_section_id, kwargs, first_order + k - 1) : k \in 1..n}

\* add_videos_to_language up to the loop of add_videos_to_sections
StartAddVideos(language_id, max) ==
  /\ enrich.pc = "idle"
  /\ enrich.served < MaxPasses
  /\ LET todo == SectionIdsFrom(language_id, 0)
         started == [enrich EXCEPT !.op = "add_videos_to_language", !.language_id = language_id, !.max = max, !.before = video_resources]
     IN enrich' = IF language_id \notin {l.id : l \in languages} THEN [started EXCEPT !.pc = "done", !.outcome = [kind |-> "NotFoundException", value |-> 0]]
                  ELSE IF todo = <<>> THEN [started EXCEPT !.pc = "done", !.outcome = [kind |-> "return", value |-> 0]]
                  ELSE [started EXCEPT !.pc = "sections", !.todo = todo]
  /\ UNCHANGED <<groq_client, anthropic_client, aiCall, search, call, crawl, video_resources, practice_problems, session, learning_paths, utcnow, worker>>
  /\ UNCHANGED ingestVars

\* one turn of the loop of add_videos_to_sections: the search answered
\* with n videos
PassSection(n) ==
  /\ enrich.pc = "sections"
  /\ enrich.todo # <<>>
  /\ n <= enrich.max
  /\ ConstructorError(PassVideoKwargs, VideoResourceColumns, VideoResourceReadOnly) = None
  /\ LET rows == NewVideoRows(n, Head(enrich.todo), PassVideoKwargs, 0)
         added == AddToSession(video_resources, enrich.session, rows)
     IN /\ video_resources' = added.store
        /\ enrich' = [enrich EXCEPT !.todo = Tail(@), !.session = added.session, !.gathered = @ \cup rows, !.total_videos = @ + n]
  /\ UNCHANGED <<groq_client, anthropic_client, aiCall, search, call, crawl, practice_problems, session, learning_paths, utcnow, worker>>
  /\ UNCHANGED ingestVars

\* the commit after the loop and the return of add_videos_to_sections, or
\* the exception of the commit that add_videos_to_language answers
PassCommit(db) ==
  /\ enrich.pc = "sections"
  /\ enrich.todo = <<>>
  /\ IF db = "ok"
     THEN /\ video_resources' = Commit(video_resources, enrich.session)
          /\ enrich' = [enrich EXCEPT !.pc = "done", !.session = {}, !.outcome = [kind |-> "return", value |-> enrich.total_videos]]
     ELSE /\ video_resources' = video_resources
          /\ enrich' = [enrich EXCEPT !.pc = "done", !.session = {}, !.outcome = [kind |-> "BadRequestException", value |-> 0]]
  /\ UNCHANGED <<groq_client, anthropic_client, aiCall, search, call, crawl, practice_problems, session, learning_paths, utcnow, worker>>
  /\ UNCHANGED ingestVars

\* the request is cancelled during the pass: get_db closes the session
PassCancelled ==
  /\ enrich.pc = "sections"
  /\ enrich' = [enrich EXCEPT !.pc = "done", !.session = {}, !.outcome = [kind |-> "cancelled", value |-> 0]]
  /\ UNCHANGED <<groq_client, anthropic_client, aiCall, search, call, crawl, video_resources, practice_problems, session, learning_paths, utcnow, worker>>
  /\ UNCHANGED ingestVars

\* scrape_videos_for_section: the search answered with n videos; loaded
\* says whether the language of the section is there without a query
ScrapeVideosForSection(section_id, n, loaded, db) ==
  /\ enrich.pc = "idle"
  /\ enrich.served < MaxPasses
  /\ LET started == [enrich EXCEPT !.op = "scrape_videos_for_section", !.pc = "done", !.before = video_resources]
         exc == ConstructorError(EndpointVideoKwargs, VideoResourceColumns, VideoResourceReadOnly)
         rows == NewVideoRows(n, section_id, EndpointVideoKwargs, max_order(video_resources, section_id) + 1)
     IN IF section_id \notin {x.id : x \in sections}
        THEN /\ enrich' = [started EXCEPT !.outcome = [kind |-> "HTTPException", value |-> 404]]
             /\ video_resources' = video_resources
        ELSE IF ~loaded
        THEN /\ enrich' = [started EXCEPT !.outcome = [kind |-> "MissingGreenlet", value |-> 500]]
             /\ video_resources' = video_resources
        ELSE IF (n > 0 /\ exc # None) \/ db # "ok"
        THEN /\ enrich' = [started EXCEPT !.outcome = [kind |-> "HTTPException", value |-> 500]]
             /\ video_resources' = video_resources
        ELSE /\ enrich' = [started EXCEPT !.gathered = rows, !.outcome = [kind |-> "return", value |-> n]]
             /\ video_resources' = Commit(video_resources, rows)
  /\ UNCHANGED <<groq_client, anthropic_client, aiCall, search, call, crawl, practice_problems, session, learning_paths, utcnow, worker>>
  /\ UNCHANGED ingestVars

\* scrape_problems_for_section: the matcher answered with n problems
ScrapeProblemsForSection(section_id, n) ==
  /\ enrich.pc = "idle"
  /\ enrich.served < MaxPasses
  /\ LET started == [enrich EXCEPT !.op = "scrape_problems_for_section", !.pc = "done", !.before = video_resources]
     IN enrich' = IF section_id \notin {x.id : x \in sections} THEN [started EXCEPT !.outcome = [kind |-> "HTTPException", value |-> 404]]
                  ELSE IF n = 0 THEN [started EXCEPT !.outcome = [kind |-> "return", value |-> 0]]
                  ELSE IF "order_index" \notin PracticeProblemColumns THEN [started EXCEPT !.outcome = [kind |-> "HTTPException", value |-> 500]]
                  ELSE [started EXCEPT !.outcome = [kind |-> "return", value |-> n]]
  /\ practice_problems' = IF section_id \in {x.id : x \in sections} /\ n > 0 /\ "order_index" \in PracticeProblemColumns THEN practice_problems \cup {[doc_section_id |-> section_id, order_index |-> max_order(practice_problems, section_id) + k] : k \in 1..n} ELSE practice_problems
  /\ UNCHANGED <<groq_client, anthropic_client, aiCall, search, call, crawl, video_resources, session, learning_paths, utcnow, worker>>
  /\ UNCHANGED ingestVars

\* add_problems_to_language
AddProblemsToLanguage(language_id, max) ==
  /\ enrich.pc = "idle"
  /\ enrich.served < MaxPasses
  /\ LET started == [enrich EXCEPT !.op = "add_problems_to_language", !.pc = "done", !.language_id = language_id, !.max = max, !.before = video_resources]
     IN enrich' = IF language_id \notin {l.id : l \in languages} THEN [started EXCEPT !.outcome = [kind |-> "NotFoundException", value |-> 0]]
                  ELSE IF "add_problems_to_sections" \notin ScraperServiceMethods THEN [started EXCEPT !.outcome = [kind |-> "BadRequestException", value |-> 0]]
                  ELSE [started EXCEPT !.outcome = [kind |-> "return", value |-> 0]]
  /\ UNCHANGED <<groq_client, anthropic_client, aiCall, search, call, crawl, video_resources, practice_problems, session, learning_paths, utcnow, worker>>
  /\ UNCHANGED ingestVars

\* the request is answered and get_db ends its session
EnrichDone ==
  /\ enrich.pc = "done"
  /\ enrich' = IdleEnrich(enrich.served + 1)
  /\ UNCHANGED <<groq_client, anthropic_client, aiCall, search, call, crawl, video_resources, practice_problems, session, learning_paths, utcnow, worker>>
  /\ UNCHANGED ingestVars

EnrichNext ==
  \/ \E language_id \in RequestIds, max \in 1..MaxVideos : StartAddVideos(language_id, max)
  \/ \E n \in 0..MaxVideos : PassSection(n)
  \/ \E db \in {"ok", "commit_error"} : PassCommit(db)
  \/ PassCancelled
  \/ \E section_id \in RequestIds, n \in 0..MaxVideos, loaded \in BOOLEAN, db \in {"ok", "commit_error"} : ScrapeVideosForSection(section_id, n, loaded, db)
  \/ \E section_id \in RequestIds, n \in 0..MaxVideos : ScrapeProblemsForSection(section_id, n)
  \/ \E language_id \in RequestIds, max \in 1..MaxVideos : AddProblemsToLanguage(language_id, max)
  \/ EnrichDone

EnrichSpec == InitEnrich /\ [][EnrichNext]_vars

(***************************************************************************)
(* Two concurrent admin scrape requests for a language that is not there   *)
(* (app/services/scraper_service.py, app/models/language.py).  Each has    *)
(* its own session; a SELECT sees the committed rows and the rows of its   *)
(* own transaction; an INSERT of a name another open transaction has       *)
(* inserted waits for the end of that transaction (unique index).          *)
(***************************************************************************)
\* the largest number of sections scrape_all returns to a concurrent run
MaxRaceSections == 1

\* language_name of both requests
RaceName == "Python"

\* uuid4() of the Language a run creates
RaceId(r) == IF r = "A" THEN 1 ELSE 2

\* the Language rows of name (or slug) that a unique index refuses a second
\* row for
SameLanguage(rows, name) == {l \in rows : l.name = name \/ l.slug = Lower(name)}

\* the variables of one request that the concurrent requests leave alone
raceFrame == <<sections, pending, pc, request, language, created, index, scraped, absent, sections_data, idx, stored_count, attempts, result, raised, runs, prev, groq_client, anthropic_client, aiCall, search, call, crawl, enrich, video_resources, practice_problems, learning_paths, utcnow, worker>>

\* _get_or_create_language of run r: the SELECT by name
RaceSelect(r) ==
  /\ session[r].pc = "start"
  /\ LET found == {l \in languages : l.name = RaceName}
     IN IF found # {}
        THEN session' = [session EXCEPT ![r].language = CHOOSE l \in found : TRUE, ![r].pc = "scrape"]
        ELSE session' = [session EXCEPT ![r].pc = "insert"]
  /\ UNCHANGED languages
  /\ UNCHANGED raceFrame

\* _get_or_create_language of run r: db.add and db.flush; the INSERT waits
\* while the other request holds an uncommitted row of the name, and fails
\* on the unique index when a row of the name has been committed
RaceInsert(r) ==
  /\ session[r].pc = "insert"
  /\ \A q \in Runs \ {r} : SameLanguage(session[q].flushed, RaceName) = {}
  /\ LET new == [id |-> RaceId(r), name |-> RaceName, slug |-> Lower(RaceName)]
     IN IF SameLanguage(languages, RaceName) # {}
        THEN session' = [session EXCEPT ![r].pc = "raised", ![r].raised = "IntegrityError"]
        ELSE session' = [session EXCEPT ![r].language = new, ![r].flushed = {new}, ![r].pc = "scrape"]
  /\ UNCHANGED languages
  /\ UNCHANGED raceFrame

\* scrape_all of run r returned n sections
RaceScrapeAll(r, n) ==
  /\ session[r].pc = "scrape"
  /\ session' = [session EXCEPT ![r].todo = n, ![r].pc = "store"]
  /\ UNCHANGED languages
  /\ UNCHANGED raceFrame

\* one turn of the store loop of run r: the section is committed, with
\* what the transaction holds, or the transaction is rolled back
RaceSection(r, db) ==
  /\ session[r].pc = "store"
  /\ session[r].todo > 0
  /\ LET known == \E l \in languages \cup session[r].flushed : l.id = session[r].language.id
     IN IF db = "ok" /\ known
        THEN /\ languages' = Commit(languages, session[r].flushed)
             /\ session' = [session EXCEPT ![r].flushed = {}, ![r].todo = @ - 1]
        ELSE /\ languages' = languages
             /\ session' = [session EXCEPT ![r].flushed = {}, ![r].todo = @ - 1]
  /\ UNCHANGED raceFrame

\* the return of scrape_and_store_language of run r
RaceReturn(r) ==
  /\ session[r].pc = "store"
  /\ session[r].todo = 0
  /\ session' = [session EXCEPT ![r].result = [language_id |-> session[r].language.id, language_name |-> RaceName], ![r].pc = "returned"]
  /\ UNCHANGED languages
  /\ UNCHANGED raceFrame

\* the endpoint of run r answers and get_db commits and closes the session;
\* after the failed flush there is nothing to commit
RaceClose(r) ==
  /\ session[r].pc \in {"returned", "raised"}
  /\ languages' = IF session[r].pc = "returned" THEN Commit(languages, session[r].flushed) ELSE languages
  /\ session' = [session EXCEPT ![r].flushed = {}, ![r].pc = "closed"]
  /\ UNCHANGED raceFrame

RaceNext ==
  \/ \E r \in Runs : RaceSelect(r)
  \/ \E r \in Runs : RaceInsert(r)
  \/ \E r \in Runs, n \in 0..MaxRaceSections : RaceScrapeAll(r, n)
  \/ \E r \in Runs, db \in DbOutcomes : RaceSection(r, db)
  \/ \E r \in Runs : RaceReturn(r)
  \/ \E r \in Runs : RaceClose(r)

RaceSpec == InitConfigured /\ [][RaceNext]_vars

(***************************************************************************)
(* Learning paths of one user (app/api/v1/learning_paths.py,               *)
(* app/crud/learning_path.py)                                              *)
(***************************************************************************)
\* the number of requests the clock of the model counts
MaxClock == 4

\* PathType
PathTypes == {"quick", "deep"}

\* PathStatus
NOT_STARTED == "not_started"

IN_PROGRESS == "in_progress"

COMPLETED == "completed"

\* the ids a request names a path by
PathIds == {1, 2, 3}

\* the progress percentages of the model
Progresses == {0, 50, 100}

\* the LearningPath create_learning_path adds; started_at and completed_at
\* are NULL
LearningPath(id, path_type) == [id |-> id, path_type |-> path_type, status |-> NOT_STARTED, progress_percentage |-> 0, started_at |-> NoneInt, completed_at |-> NoneInt]

\* CRUDLearningPath.update_progress on a path that exists, at time now
update_progress(path, progress_percentage, status, now) ==
  LET set == [path EXCEPT !.progress_percentage = progress_percentage]
      moved == IF progress_percentage = 0
               THEN [set EXCEPT !.status = NOT_STARTED, !.started_at = NoneInt]
               ELSE IF progress_percentage >= 100
                    THEN [set EXCEPT !.status = COMPLETED, !.completed_at = SomeInt(now)]
                    ELSE [set EXCEPT !.status = IN_PROGRESS, !.started_at = IF path.status = NOT_STARTED THEN SomeInt(now) ELSE @]
  IN IF status # None THEN [moved EXCEPT !.status = status] ELSE moved

\* "active_paths" of get_admin_stats: the paths whose completed_at is NULL
active_paths(paths) == Cardinality({p \in paths : p.completed_at = NoneInt})

\* the variables the learning-path requests leave alone
pathFrame == <<groq_client, anthropic_client, aiCall, search, call, crawl, enrich, video_resources, practice_problems, session, worker>>

\* create_learning_path: 409 when the user has a path of the type for the
\* language
CreateLearningPath(path_type) ==
  /\ utcnow < MaxClock
  /\ utcnow' = utcnow + 1
  /\ IF \E p \in learning_paths : p.path_type = path_type
     THEN learning_paths' = learning_paths
     ELSE learning_paths' = learning_paths \cup {LearningPath(CHOOSE i \in PathIds : \A p \in learning_paths : p.id # i, path_type)}
  /\ UNCHANGED pathFrame
  /\ UNCHANGED ingestVars

\* start_learning_path: 404 when the path is not there, 400 when it is not
\* NOT_STARTED
StartLearningPath(path_id) ==
  /\ utcnow < MaxClock
  /\ utcnow' = utcnow + 1
  /\ LET found == {p \in learning_paths : p.id = path_id}
     IN IF found = {} \/ \E p \in found : p.status # NOT_STARTED
        THEN learning_paths' = learning_paths
        ELSE learning_paths' = (learning_paths \ found) \cup {[p EXCEPT !.status = IN_PROGRESS, !.started_at = SomeInt(utcnow)] : p \in found}
  /\ UNCHANGED pathFrame
  /\ UNCHANGED ingestVars

\* update_path_progress: 404 when the path is not there, else
\* update_progress without a status and the commit
UpdatePathProgress(path_id, progress_percentage) ==
  /\ utcnow < MaxClock
  /\ utcnow' = utcnow + 1
  /\ LET found == {p \in learning_paths : p.id = path_id}
     IN learning_paths' = (learning_paths \ found) \cup {update_progress(p, progress_percentage, None, utcnow) : p \in found}
  /\ UNCHANGED pathFrame
  /\ UNCHANGED ingestVars

PathNext ==
  \/ \E path_type \in PathTypes : CreateLearningPath(path_type)
  \/ \E path_id \in PathIds : StartLearningPath(path_id)
  \/ \E path_id \in PathIds, progress_percentage \in Progresses : UpdatePathProgress(path_id, progress_percentage)

PathSpec == InitConfigured /\ [][PathNext]_vars

(***************************************************************************)
(* The store loop of one run and the executor of the provider calls        *)
(* (scraper_service.py lines 116-181, ai_services.py lines 85-207): a call *)
(* is in flight from run_in_executor to the return of the worker thread    *)
(***************************************************************************)
\* the largest number of sections of a store loop
MaxLoopSections == 3

\* a coroutine that goes on without the result of the future
NotAwaited(future) == TRUE

\* "return await loop.run_in_executor(None, _call)": the coroutine goes on
\* when the worker thread has returned or raised
Awaited(future) == future # "pending"

\* loop.run_in_executor(None, _call) of the provider for the section of
\* the loop
Submit(w, provider) == [w EXCEPT !.in_flight = @ \cup {[section |-> w.idx, provider |-> provider]}, !.future = "pending", !.pc = IF provider = "groq" THEN "await_groq" ELSE "await_claude"]

\* the variables the store loop leaves alone
loopFrame == <<groq_client, anthropic_client, aiCall, search, call, crawl, enrich, video_resources, practice_problems, session, learning_paths, utcnow>>

\* scrape_all has returned n sections and the store loop begins
LoopBegin(n) ==
  /\ worker.pc = "idle"
  /\ worker' = [worker EXCEPT !.total = n, !.idx = 0, !.pc = IF n = 0 THEN "done" ELSE "summary"]
  /\ UNCHANGED loopFrame
  /\ UNCHANGED ingestVars

\* _generate_summary of the section of the loop: no call for a short
\* preview, else summarize_documentation up to its first provider call (a
\* preview of 100 characters or more passes its length check)
SummaryBegin(short) ==
  /\ worker.pc = "summary"
  /\ worker' = IF short THEN [worker EXCEPT !.pc = "persist"]
               ELSE IF groq_client THEN Submit(worker, "groq")
               ELSE IF anthropic_client THEN Submit(worker, "claude")
               ELSE [worker EXCEPT !.pc = "persist"]
  /\ UNCHANGED loopFrame
  /\ UNCHANGED ingestVars

\* the worker thread of a call returns the text of the provider or raises
WorkerReturns(c, outcome) ==
  /\ c \in worker.in_flight
  /\ worker' = [worker EXCEPT !.in_flight = @ \ {c}, !.future = IF worker.future = "pending" THEN outcome ELSE @]
  /\ UNCHANGED loopFrame
  /\ UNCHANGED ingestVars

\* the coroutine goes on after the await of a provider call: the failover
\* to the secondary provider when the primary raised, else the summary (of
\* the provider, or the fallback text) is there
Resume ==
  /\ worker.pc \in {"await_groq", "await_claude"}
  /\ Awaited(worker.future)
  /\ worker' = IF worker.pc = "await_groq" /\ worker.future = "raise" /\ anthropic_client
               THEN Submit(worker, "claude")
               ELSE [worker EXCEPT !.pc = "persist", !.future = None]
  /\ UNCHANGED loopFrame
  /\ UNCHANGED ingestVars

\* db.add, db.flush and the call of db.commit for the section
CommitBegin ==
  /\ worker.pc = "persist"
  /\ worker' = [worker EXCEPT !.committing = @ \cup {worker.idx}, !.pc = "await_commit"]
  /\ UNCHANGED loopFrame
  /\ UNCHANGED ingestVars

\* the commit has returned, or has raised and the rollback has returned;
\* the loop goes to the next section
CommitEnd(db) ==
  /\ worker.pc = "await_commit"
  /\ worker' = [worker EXCEPT !.committing = @ \ {worker.idx}, !.idx = @ + 1, !.pc = IF worker.idx + 1 = worker.total THEN "done" ELSE "summary"]
  /\ UNCHANGED loopFrame
  /\ UNCHANGED ingestVars

LoopNext ==
  \/ \E n \in 0..MaxLoopSections : LoopBegin(n)
  \/ \E short \in BOOLEAN : SummaryBegin(short)
  \/ \E c \in worker.in_flight, outcome \in ProviderOutcomes : WorkerReturns(c, outcome)
  \/ Resume
  \/ CommitBegin
  \/ \E db \in DbOutcomes : CommitEnd(db)

LoopSpec == InitEmpty /\ [][LoopNext]_vars

(***************************************************************************)
(* Properties of the ingestion run                                         *)
(***************************************************************************)
\* the rows the running ingest has counted as stored
RunRows == {r \in sections : \E i \in DOMAIN attempts : attempts[i].stored /\ attempts[i].id = r.id}

\* the phases of a run between its start and its return
RunPhases == {"index", "scraping", "store"}

\* C1: every section the running ingest has counted as stored (committed) is
\* a durable row of the store in every later state of the run, whatever
\* failure and rollback later sections of the run go through
C1_StoredSectionsStay == \A i \in DOMAIN attempts : attempts[i].stored => \E r \in sections : r.id = attempts[i].id /\ r.order_index = attempts[i].order_index

\* a section was stored, a later section of the run failed and was rolled
\* back, and the run has returned
C1_Witness == pc = "returned" /\ C1_StoredSectionsStay /\ \E i, j \in DOMAIN attempts : i < j /\ attempts[i].stored /\ attempts[j].exc # None

\* C2: in a finished store loop every section whose own INSERT and COMMIT
\* the database did not fail is stored, whatever happened to the sections
\* before it, the first section of a run that created its language included
C2_FailureIsolation == \A j \in DOMAIN attempts : ~attempts[j].injected => attempts[j].stored

\* C3: when the run has returned and no section failed to be persisted, the
\* result counts every stub of the index as scraped and the stubs whose
\* content was extracted as stored, and exactly those are in the store
C3_AttemptedCounted == (pc = "returned" /\ \A i \in DOMAIN attempts : attempts[i].exc = None) => (result.sections_scraped = index /\ result.sections_stored = index - Cardinality(absent) /\ {r.order_index : r \in RunRows} = (1..index) \ absent)

\* the steps a run has left at most: the stubs to scrape, the sections to
\* store, the return
RunMeasure == CASE pc = "index" -> 2 * MaxStubs + 3 [] pc = "scraping" -> (index - scraped) + MaxStubs + 2 [] pc = "store" -> (Len(sections_data) - idx) + 1 [] OTHER -> 0

\* the state part of C4
C4_State ==
  /\ pc = "raised" => (attempts = <<>> /\ scraped = 0 /\ result = NoneObj /\ ((raised = "ValueError" /\ Lower(request) # "python") \/ (raised = "IntegrityError" /\ \E l \in languages : l.name # request /\ l.slug = Lower(request))))
  /\ pc = "returned" => (raised = None /\ Lower(request) = "python" /\ result.language_id = language.id /\ result.sections_scraped = Len(sections_data) /\ result.sections_stored = Cardinality({i \in DOMAIN attempts : attempts[i].stored}) /\ result.sections_stored <= result.sections_scraped /\ Len(attempts) = Len(sections_data))
  /\ pc \in RunPhases => (raised = None /\ Lower(request) = "python" /\ ENABLED IngestSteps(Pages, ProviderOutcomes))

\* the step part of C4: a run that has chosen its scraper never raises, and
\* each of its steps brings the return nearer
C4_Step == pc \in RunPhases => (pc' # "raised" /\ RunMeasure' < RunMeasure)

C5_IngestTwiceOneLanguage == (pc = "returned" /\ prev[request] # 0) => (~created /\ result.language_id = prev[request] /\ Cardinality({l \in languages \cup pending.languages : l.name = request}) = 1)

\* the position of a row among the rows the run stored, by order_index
RankInRun(r) == Cardinality({q \in RunRows : q.order_index < r.order_index})

\* the 0-based position in sections_data of the section of a row
PositionInData(r) == CHOOSE i \in 0..(Len(sections_data) - 1) : sections_data[i + 1].order_index = r.order_index

ValidContent == aiCall.content.len > 0 /\ aiCall.content.slen >= MinSummaryContent

\* every provider that is configured raised in the last call
NoProviderAnswered == (~groq_client \/ aiCall.groqOut = "raise") /\ (~anthropic_client \/ aiCall.claudeOut = "raise")

\* the case of C7: valid content, the primary provider raised, the secondary
\* provider returned a text
FailoverCase == aiCall # NoneObj /\ ValidContent /\ groq_client /\ aiCall.groqOut = "raise" /\ anthropic_client /\ aiCall.claudeOut # "raise"

\* C7: for valid content, when the primary provider raised and the secondary
\* provider returned a text, summarize returns that text without raising,
\* and the secondary provider was called once, after the primary, with the
\* system prompt and the user prompt the primary was called with
C7_Failover == FailoverCase => (aiCall.result.kind = "return" /\ aiCall.result.value = aiCall.claudeOut /\ Len(aiCall.result.calls) = 2 /\ aiCall.result.calls[1].provider = "groq" /\ aiCall.result.calls[2].provider = "claude" /\ aiCall.result.calls[2].system = aiCall.result.calls[1].system /\ aiCall.result.calls[2].user = aiCall.result.calls[1].user)

\* the primary provider raised on a valid content longer than the input cap
\* and the secondary provider returned "X", which summarize returned
C7_Witness == FailoverCase /\ aiCall.content.len > MaxInputChars /\ aiCall.claudeOut = "X" /\ aiCall.result.kind = "return" /\ aiCall.result.value = "X"

\* C8: summarize fails with the validation error exactly when the content
\* is shorter than the minimum length, and with the service-unavailable
\* error exactly when the content is valid and no configured provider
\* answered (every one raised, or none is configured)
C8_ErrorKinds == aiCall # NoneObj => (((aiCall.result.kind = "raise" /\ aiCall.result.value = "BadRequestException") <=> ~ValidContent) /\ ((aiCall.result.kind = "raise" /\ aiCall.result.value = "ServiceUnavailableException") <=> (ValidContent /\ NoProviderAnswered)))

(***************************************************************************)
(* Properties of the problem matcher                                       *)
(***************************************************************************)
\* the last search met a failed upstream query
UpstreamDown == search # NoneObj /\ search.api.kind # "ok"

\* the entries of a result are entries of the curated table with a title
CuratedEntries(value) == \A i \in DOMAIN value : value[i].origin = "curated" /\ value[i].title # "" /\ \E k \in CuratedTags : \E j \in DOMAIN CuratedFor(k) : CuratedFor(k)[j].title = value[i].title

\* the search of the scenario: search("array", "easy", 3) with the upstream
\* query failed
ArrayEasyThree == UpstreamDown /\ search.topic = "array" /\ search.difficulty = "easy" /\ search.limit = 3

\* C9 as stated: when the upstream query fails, search("array", "easy", 3)
\* returns 3 non-empty curated entries
C9_FallbackThree == ArrayEasyThree => (search.result.kind = "return" /\ Len(search.result.value) = 3 /\ CuratedEntries(search.result.value))

\* C9 amended: when the upstream query fails, search("array", "easy", 3)
\* returns without raising the 2 easy entries the curated table has for
\* array, Two Sum and Best Time to Buy and Sell Stock, in that order
C9_FallbackCurated == ArrayEasyThree => (search.result.kind = "return" /\ Len(search.result.value) = 2 /\ CuratedEntries(search.result.value) /\ search.result.value[1].title = "Two Sum" /\ search.result.value[2].title = "Best Time to Buy and Sell Stock" /\ \A i \in DOMAIN search.result.value : search.result.value[i].difficulty = "easy" /\ search.result.value[i].order_index = i - 1)

\* search("array", "easy", 3) was answered by the fallback after the
\* upstream answered with status 500
C9_Witness == ArrayEasyThree /\ search.api.kind = "status" /\ search.api.status = 500 /\ Len(search.result.value) = 2

\* C10: with the upstream down, a search for a tag of the curated table with
\* any difficulty (none, easy, medium, hard) and any limit >= 1 returns a
\* non-empty list of curated problems
C10_AlwaysSomething == (UpstreamDown /\ search.topic \in CuratedTags /\ search.difficulty \in {None, "easy", "medium", "hard"} /\ search.limit >= 1) => (search.result.kind = "return" /\ Len(search.result.value) >= 1 /\ CuratedEntries(search.result.value))

(***************************************************************************)
(* Properties of the index pass                                            *)
(***************************************************************************)
\* the link is one the stub list must not have a stub for: its href starts
\* with '#', is absolute or external, lacks the .html extension, or refers
\* to the index page itself
ExcludedHref(h) == StartsWithHash(h) \/ h.lead \in {"https://docs.python.org/3/tutorial/", "//example.org/"} \/ ~EndsWithHtml(h) \/ make_absolute_url(h).path = "index"

\* C16: the stub list of scrape_index has no two stubs with the same
\* source URL and no stub for a link whose href starts with '#', is
\* absolute or external, lacks the .html extension or refers to the index
\* page itself
C16_StubsDistinctAndFiltered ==
  (call # NoneObj /\ call.fn = "scrape_index") =>
    /\ \A i, j \in DOMAIN call.stubs : i # j => call.stubs[i].url # call.stubs[j].url
    /\ \A i \in DOMAIN call.stubs : ~ExcludedHref(call.stubs[i].href)

\* the characters a slug is made of: [a-z0-9-]
SlugChars == {"a", "b", "7", "-"}

\* C17: the slug of every title is lowercase, has only characters of
\* [a-z0-9-], has no leading or trailing hyphen and is at most 50 long
C17_SlugWellFormed ==
  (call # NoneObj /\ call.fn = "_generate_slug") =>
    /\ \A i \in DOMAIN call.slug : call.slug[i].ch \in SlugChars
    /\ call.slug # <<>> => call.slug[1].ch # "-" /\ call.slug[Len(call.slug)].ch # "-"
    /\ RunsLen(call.slug) <= SlugCap

(***************************************************************************)
(* Properties of the matchers                                              *)
(***************************************************************************)
\* the tag every topic outside the lookup table is mapped to
DefaultTag == "array"

\* C19: a topic of the lookup table is mapped to its canonical tag
\* ("dictionary" to "hash-table"), every other topic to one fixed default
\* tag and not to itself
C19_TopicToTag ==
  (call # NoneObj /\ call.fn = "get_problems_for_topic") =>
    /\ call.topic = "dictionary" => call.leetcode_tag = "hash-table"
    /\ Lower(call.topic) \in DOMAIN LEETCODE_TOPIC_MAPPING => call.leetcode_tag = LEETCODE_TOPIC_MAPPING[Lower(call.topic)]
    /\ Lower(call.topic) \notin DOMAIN LEETCODE_TOPIC_MAPPING \cup {"dictionary"} => call.leetcode_tag = DefaultTag

\* the duration is in the compact notation: "PT", then numbers of hours,
\* minutes and seconds in that order, each at most once, at least one
WellFormedDuration(d) ==
  /\ d.lead = "PT"
  /\ d.parts # <<>>
  /\ \A i \in DOMAIN d.parts : d.parts[i].unit \in {"H", "M", "S"}
  /\ \A i, j \in DOMAIN d.parts : i < j => <<d.parts[i].unit, d.parts[j].unit>> \in {<<"H", "M">>, <<"H", "S">>, <<"M", "S">>}

\* the number of the part of d with the unit, 0 when there is none
PartOf(d, unit) == IF \E i \in DOMAIN d.parts : d.parts[i].unit = unit THEN d.parts[CHOOSE i \in DOMAIN d.parts : d.parts[i].unit = unit].n ELSE 0

\* C20: a duration in the compact notation gives hours*3600 + minutes*60 +
\* seconds as the candidate's duration, an absent or malformed one gives 0
C20_DurationSeconds ==
  (call # NoneObj /\ call.fn = "_format_videos") =>
    IF call.detail.found /\ call.detail.has_duration /\ WellFormedDuration(call.detail.duration)
    THEN call.duration_seconds = SomeInt(PartOf(call.detail.duration, "H") * 3600 + PartOf(call.detail.duration, "M") * 60 + PartOf(call.detail.duration, "S"))
    ELSE call.duration_seconds = SomeInt(0)

(***************************************************************************)
(* Properties of a scrape session                                          *)
(***************************************************************************)
\* the fetches of the session that failed
FailedFetches == {i \in DOMAIN crawl.fetched : crawl.fetched[i].outcome.kind # "ok"}

\* C14: fetch never raises: every fetch failure (network error or non-2xx
\* status) is reported as None, and the session goes on with the next URL,
\* so that a session that returned has fetched every stub of its index
C14_FetchNeverRaises ==
  /\ ~crawl.raised
  /\ \A i \in FailedFetches : ~crawl.fetched[i].html
  /\ crawl.pc \in {"sections", "returned"} => Len(crawl.fetched) = 1 + crawl.scraped
  /\ crawl.pc = "returned" => crawl.scraped = crawl.index

\* a session has returned after a fetch that failed on the network, a fetch
\* that failed on the status and a later fetch
C14_Witness ==
  /\ crawl.pc = "returned"
  /\ \E i, j \in FailedFetches : i < j /\ crawl.fetched[i].outcome.kind = "network" /\ crawl.fetched[j].outcome.kind = "status"

\* C15: between any two consecutive requests of a session there is a wait
\* of the configured delay, whatever the outcomes of the fetches
C15_DelayBetweenRequests ==
  \A i, j \in DOMAIN crawl.log : (i < j /\ crawl.log[i] = "get" /\ crawl.log[j] = "get") => \E k \in (i + 1)..(j - 1) : crawl.log[k] = "sleep"

(***************************************************************************)
(* Properties of the enrichment                                            *)
(***************************************************************************)
\* every resource of old is in new unchanged, and every resource of new
\* that is not in old has an order index above those of its section in old
AppendedAfter(old, new) ==
  /\ old \subseteq new
  /\ \A r \in new \ old : \A o \in old : o.doc_section_id = r.doc_section_id => r.order_index > o.order_index

\* the order indexes within a section are distinct
DistinctOrders(rows) == \A r1, r2 \in rows : (r1.doc_section_id = r2.doc_section_id /\ r1.order_index = r2.order_index) => r1 = r2

\* C11: enrichment appends and never replaces: every resource attached
\* before a call is still there unchanged, every resource a call persists
\* has an order index above those its section already had, and the order
\* indexes within a section stay distinct
C11_AppendNeverReplaces ==
  /\ [][AppendedAfter(video_resources, video_resources') /\ AppendedAfter(practice_problems, practice_problems')]_vars
  /\ [](DistinctOrders(video_resources) /\ DistinctOrders(practice_problems))

\* a video pass over a language is being served or has been answered
InVideoPass == enrich.op = "add_videos_to_language" /\ enrich.pc \in {"sections", "done"}

\* C12: a video pass is all-or-nothing relative to its single commit:
\* nothing it gathered is durable before the commit, a pass that fails
\* before the commit leaves none of its candidates durable, and a pass that
\* succeeds leaves all of them durable and returns their number
C12_PassAllOrNothing ==
  InVideoPass =>
    /\ enrich.pc = "sections" => video_resources = enrich.before
    /\ (enrich.pc = "done" /\ enrich.outcome.kind # "return") => video_resources = enrich.before /\ enrich.gathered \cap video_resources = {}
    /\ (enrich.pc = "done" /\ enrich.outcome.kind = "return") =>
         /\ video_resources = enrich.before \cup enrich.gathered
         /\ enrich.gathered \cap enrich.before = {}
         /\ enrich.outcome.value = Cardinality(enrich.gathered)
         /\ enrich.outcome.value = Cardinality(video_resources) - Cardinality(enrich.before)

\* a pass that gathered candidates has failed at its commit, after an
\* earlier pass persisted the videos of two sections
C12_Witness ==
  /\ InVideoPass
  /\ enrich.pc = "done"
  /\ enrich.outcome.kind = "BadRequestException"
  /\ enrich.gathered # {}
  /\ Cardinality({r.doc_section_id : r \in enrich.before}) = 2

\* C13: enrich_with_problems on an existing language that has stored
\* sections completes and returns the count added
C13_ProblemsEntryPoint ==
  (enrich.pc = "done" /\ enrich.op = "add_problems_to_language" /\ \E x \in sections : x.language_id = enrich.language_id) => enrich.outcome.kind = "return"

(***************************************************************************)
(* Properties of the size caps                                             *)
(***************************************************************************)
\* C18: a section whose extracted text is longer than the cap is stored
\* with a body of exactly cap length, the first cap characters of the
\* text; the rows handed to the database are already cut, and cutting in
\* the extractor and again in the orchestrator gives what cutting once
\* gives
C18_ContentCap ==
  \A r \in sections \cup pending.sections :
    LET extracted == Str(r.content_raw.text)
    IN /\ r.content_raw.len <= ContentCap
       /\ TextLen(r.content_raw.text) > ContentCap => r.content_raw.len = ContentCap /\ r.content_raw = Prefix(extracted, ContentCap)
       /\ Prefix(Prefix(extracted, ContentCap), ContentCap) = Prefix(extracted, ContentCap)
       /\ r.content_raw = Prefix(scrape_section([text |-> r.content_raw.text, blocks |-> 0]).content_raw, ContentCap) \/ r.content_raw = PlaceholderBody

\* a section whose extracted text is longer than the cap has been stored
C18_Witness == \E r \in RunRows : TextLen(r.content_raw.text) > ContentCap /\ r.content_raw.len = ContentCap

(***************************************************************************)
(* Properties of the order of the run                                      *)
(***************************************************************************)
\* C21: the run handles its sections one at a time: when the page of
\* section i+1 has been fetched, section i has been committed or skipped
\* (it had no content, or its turn of the store loop is over)
C21_OneSectionAtATime == (pc \in RunPhases /\ scraped >= 2) => Len(attempts) + Cardinality(absent) >= scraped - 1

\* the exceptions of the persistence of a section
PersistenceExceptions == {"DBAPIError", "IntegrityError"}

\* C23: a failure of the summarizer adapter never costs a section: no
\* section of the run fails with an exception of the adapter, a section
\* the adapter raised for is stored, when its persistence does not fail,
\* with the generic summary, and sections_stored counts every section whose
\* persistence did not fail
C23_SummaryFailureKeepsSection ==
  /\ \A i \in DOMAIN attempts :
       /\ attempts[i].exc \in PersistenceExceptions \cup {None}
       /\ attempts[i].stored <=> attempts[i].exc = None
       /\ (attempts[i].ai = "raise" /\ attempts[i].stored) => \E r \in sections : r.id = attempts[i].id /\ r.content_summary = "Comprehensive programming tutorial."
       /\ attempts[i].stored => \E r \in sections : r.id = attempts[i].id /\ (r.content_summary \in PlaceholderSummaries \/ attempts[i].ai = "return")
  /\ pc = "returned" => result.sections_stored = Cardinality({i \in DOMAIN attempts : attempts[i].exc = None})

\* the adapter raised for a section of a run that returned with every
\* scraped section stored
C23_Witness == pc = "returned" /\ result.sections_stored = Len(sections_data) /\ \E i \in DOMAIN attempts : attempts[i].ai = "raise" /\ attempts[i].stored

\* C26: the Language of the run is in the store, or in the transaction of
\* the request, as long as the run stores sections and when it returns
C26_LanguageSurvivesRollback == (pc \in {"store", "returned"}) => \E l \in languages \cup pending.languages : l.id = language.id

\* C27: no Language record is ever durable for a name no scraper exists
\* for (the store starts without one, so a request that failed for the
\* missing scraper created none)
C27_NoScraperNoLanguage == \A l \in languages : Lower(l.name) = "python"

CallsTo(provider) == {i \in DOMAIN aiCall.result.calls : aiCall.result.calls[i].provider = provider}

\* C22: a content under the minimum length reaches no provider; else the
\* primary provider is called at most once and only when configured, the
\* secondary at most once, after the primary, and only when the primary
\* raised or is not configured; no provider is called a second time
C22_CallDiscipline ==
  aiCall # NoneObj =>
    /\ ~ValidContent => aiCall.result.calls = <<>>
    /\ Cardinality(CallsTo("groq")) <= 1 /\ Cardinality(CallsTo("claude")) <= 1
    /\ CallsTo("groq") \cup CallsTo("claude") = DOMAIN aiCall.result.calls
    /\ CallsTo("groq") # {} => groq_client /\ CallsTo("groq") = {1}
    /\ CallsTo("claude") # {} => anthropic_client /\ (~groq_client \/ aiCall.groqOut = "raise")

\* both providers are configured and both raised: each was called once,
\* the primary first
C22_Witness == aiCall # NoneObj /\ ValidContent /\ groq_client /\ anthropic_client /\ aiCall.groqOut = "raise" /\ aiCall.claudeOut = "raise" /\ Len(aiCall.result.calls) = 2 /\ aiCall.result.kind = "raise"

(***************************************************************************)
(* Properties of the index pass: the section limit                         *)
(***************************************************************************)
\* C25: scrape_index returns at most 15 stubs for any index page, and the
\* order_index values of the stubs are 1..n in list order: a skipped link
\* and a duplicate link take no position
C25_CapAndConsecutiveOrder ==
  (call # NoneObj /\ call.fn = "scrape_index") =>
    /\ Len(call.stubs) <= MaxIndexSections
    /\ \A i \in DOMAIN call.stubs : call.stubs[i].order_index = i

\* an index page with more acceptable links than the limit, a skipped link
\* before them, gave 15 stubs
C25_Witness ==
  /\ call # NoneObj /\ call.fn = "scrape_index"
  /\ Len(call.links) > MaxIndexSections + 2
  /\ ExcludedHref(call.links[1].href)
  /\ Len(call.stubs) = MaxIndexSections
  /\ call.stubs[MaxIndexSections].order_index = MaxIndexSections

(***************************************************************************)
(* Properties of concurrent requests                                       *)
(***************************************************************************)
\* C29: when two concurrent requests for the same new language name have
\* both been answered, the store has exactly one Language of the name and
\* both runs returned a result that names it
C29_OneLanguageBothReturn ==
  (\A r \in Runs : session[r].pc = "closed") =>
    /\ Cardinality({l \in languages : l.name = RaceName}) = 1
    /\ \A r \in Runs : session[r].result # NoneObj /\ \E l \in languages : l.name = RaceName /\ l.id = session[r].result.language_id

(***************************************************************************)
(* Properties of the learning paths                                        *)
(***************************************************************************)
\* C30: completed_at is set exactly when the status is COMPLETED, so the
\* paths counted active by "completed_at is null" are the paths that are
\* not completed, and started_at is set whenever the status is IN_PROGRESS
C30_TimestampsMatchStatus ==
  /\ \A p \in learning_paths :
       /\ p.completed_at # NoneInt <=> p.status = COMPLETED
       /\ p.status = IN_PROGRESS => p.started_at # NoneInt
  /\ active_paths(learning_paths) = Cardinality({p \in learning_paths : p.status # COMPLETED})

(***************************************************************************)
(* Properties of the store loop                                            *)
(***************************************************************************)
\* C24: at no point of a run are two provider calls, or two section
\* commits, in flight: a call in flight is the one call of the section of
\* the loop, which waits for it, and no commit runs meanwhile
C24_OneCallInFlight ==
  /\ Cardinality(worker.in_flight) <= 1
  /\ Cardinality(worker.committing) <= 1
  /\ \A c \in worker.in_flight : c.section = worker.idx /\ worker.pc \in {"await_groq", "await_claude"} /\ worker.committing = {}
  /\ \A i \in worker.committing : i = worker.idx /\ worker.pc = "await_commit"

\* the first section is committed and the call of the secondary provider
\* for the second section is in flight, after the primary raised
C24_Witness == worker.idx = 1 /\ worker.in_flight = {[section |-> 1, provider |-> "claude"]} /\ groq_client

====
